---------------------------- MODULE Spec2Model ----------------------------
(***************************************************************************)
(* A model of chelma/LP04: the page-summarisation graph of                 *)
(* summary_expert/graph.py, the chain passes of summary_expert/chain.py    *)
(* and the command-line pipeline of gen_summary.py.                        *)
(*                                                                         *)
(* Texts and pages are numbers (a text is one of 1..NumTexts, 0 is the     *)
(* empty string / the empty page).  A message is a record                  *)
(*   [type, oid, id, content, tool_calls, tool_call_id, name]              *)
(* where oid is the identity of the Python object and id the message id    *)
(* (0 is None until the add_messages reducer assigns one); content is the  *)
(* fixed text of the message and the values formatted into it.             *)
(***************************************************************************)
EXTENDS Integers, Sequences, FiniteSets, TLC

VARIABLES
    keys,                 \* graph state: the keys present in the state dict
    raw_page,             \* graph state: SummarizePageState fields
    converted_page,
    refined_page,
    convert_turns,
    refine_turns,
    convert_complete,
    refine_1st_complete,
    refine_2nd_complete,
    pc,                   \* graph run: the node to execute next, "END" or "RAISED"
    err,                  \* graph run: the exception that ended the run, or "none"
    executed,             \* graph run: the nodes entered so far, in order
    invoked,              \* graph run: the calls of llm.invoke, in order: the node, the
                          \* turns handed over and the response (<<>> when it raised)
    nextOid,              \* the next fresh object identity
    final_state,          \* graph run: run_workflow's final_state, the last state streamed
    thread,               \* graph run: the thread id run_workflow was given
    resumed,              \* graph run: the thread had a checkpoint when the run began
    runs,                 \* the calls of run_workflow so far
    checkpoints,          \* the MemorySaver: thread id -> <<>> or <<the state saved last>>
    scraped_page,         \* batched conversion: the argument, [url, content]
    batched_context,      \* batched conversion: one turn list per section
    response_batched,     \* batched conversion: the responses gathered so far
    group_start,          \* batched conversion: i of the loop over the groups
    started,              \* batched conversion: positions of the group whose call has begun
    completed,            \* batched conversion: [pos, response] of the group, as they complete
    sent,                 \* batched conversion: how often each position was handed to ainvoke
    groups_run,           \* batched conversion: the groups handed to asyncio.run
    conversion_passes,    \* batched conversion: the passes returned
    b_pc,                 \* batched conversion: where the function stands
    b_err,                \* batched conversion: the exception raised, or "none"
    c_fn,                 \* chain pass: the function called
    c_args,               \* chain pass: its arguments as given, [url, text, refined, turns]
    c_caller_turns,       \* chain pass: the list object the caller passed as turns
    c_invocations,        \* chain pass: the calls of llm.invoke, [turns, response]
    c_result,             \* chain pass: the SummarizationPass returned, [url, text, turns]
    c_pc,                 \* chain pass: "call", "returned" or "RAISED"
    c_err,                \* chain pass: the exception raised, or "none"
    urls,                 \* main: the --urls option, a string of characters
    url_list,             \* main: urls.split(',')
    scraped_pages,        \* main: the pages scraped so far, [url, content]
    pass_results,         \* main: the pass most recently returned
    page_results,         \* main: the final pass of each page summarised
    combined_summary,     \* main: the pass perform_combined_summary returned
    final_summary,        \* main: <<>> while None, else <<the text>>
    output_file,          \* main: the texts written to the output file, in order
    passes_called,        \* main: the passes called so far, [fn, page], in order
    m_pc,                 \* main: the step to take next, "returned" or "RAISED"
    m_err,                \* main: the exception that ended the command, or "none"
    s_elements,           \* scraper: what soup.find_all returns, [tag, text, items]
    s_pos,                \* scraper: the elements the loop has taken
    page_structure,       \* scraper: heading text -> the fragments under it
    current_heading,      \* scraper: <<>> while None, else <<the heading's text>>
    s_pc,                 \* scraper: "fetch", "loop", "returned" or "RAISED"
    s_err                 \* scraper: the exception raised, or "none"

graphVars == <<keys, raw_page, converted_page, refined_page, convert_turns,
               refine_turns, convert_complete, refine_1st_complete,
               refine_2nd_complete, pc, err, executed, invoked, nextOid, final_state,
               thread, resumed, runs, checkpoints>>

batchVars == <<scraped_page, batched_context, response_batched, group_start, started,
               completed, sent, groups_run, conversion_passes, b_pc, b_err>>

chainVars == <<c_fn, c_args, c_caller_turns, c_invocations, c_result, c_pc, c_err>>

mainVars == <<urls, url_list, scraped_pages, pass_results, page_results,
              combined_summary, final_summary, output_file, passes_called,
              m_pc, m_err>>

scraperVars == <<s_elements, s_pos, page_structure, current_heading, s_pc, s_err>>

nonGraphVars == <<batchVars, chainVars, mainVars, scraperVars>>

nonBatchVars == <<graphVars, chainVars, mainVars, scraperVars>>

nonChainVars == <<graphVars, batchVars, mainVars, scraperVars>>

nonMainVars == <<graphVars, batchVars, chainVars, scraperVars>>

nonScraperVars == <<graphVars, batchVars, chainVars, mainVars>>

vars == <<graphVars, nonGraphVars>>

----------------------------------------------------------------------------
(* Bounds of the model *)

NumTexts == 2
NumPages == 1
MaxToolCalls == 2
MaxSections == 4
MaxUrlChars == 3
MaxElements == 4
NumThreads == 2
MaxRuns == 3

Texts == 1..NumTexts
Pages == 1..NumPages
Threads == 1..NumThreads

----------------------------------------------------------------------------
(* Messages, tool calls and the store tools *)

NoId == <<>>

(* a value formatted into a message as it is *)
Str(v) == [enc |-> "str", v |-> v]

SystemMessage(oid, template, args) ==
    [type |-> "system", oid |-> oid, id |-> 0,
     content |-> [text |-> template, args |-> args],
     tool_calls |-> <<>>, tool_call_id |-> NoId, name |-> ""]

HumanMessage(oid, text) ==
    [type |-> "human", oid |-> oid, id |-> 0,
     content |-> [text |-> text, args |-> <<>>],
     tool_calls |-> <<>>, tool_call_id |-> NoId, name |-> ""]

AIMessage(oid, text, args) ==
    [type |-> "ai", oid |-> oid, id |-> 0,
     content |-> [text |-> text, args |-> args],
     tool_calls |-> <<>>, tool_call_id |-> NoId, name |-> ""]

ToolMessage(oid, name, text, tool_call_id) ==
    [type |-> "tool", oid |-> oid, id |-> 0,
     content |-> [text |-> text, args |-> <<>>],
     tool_calls |-> <<>>, tool_call_id |-> tool_call_id, name |-> name]

get_page_to_markdown_prompt_template(oid, source_text) ==
    SystemMessage(oid, "page_to_markdown_prompt_template", <<source_text>>)

get_page_summary_prompt_template(oid, source_text) ==
    SystemMessage(oid, "page_summary_prompt_template", <<source_text>>)

ToolNames == {"StoreConvertedPage", "StoreRefinedPageSummary", "StoreCombinedPageSummary"}

(* the one field of each tool's args_schema *)
SchemaField(name) ==
    CASE name = "StoreConvertedPage" -> "markdown_text"
      [] name = "StoreRefinedPageSummary" -> "refined_text"
      [] name = "StoreCombinedPageSummary" -> "combined_text"

(* the functions behind the tools: they hand back their argument *)
store_converted_page(markdown_text) == markdown_text

(* a store function that returns None, as its annotation says *)
store_refined_page_summary_returns_none(refined_text) == 0

store_refined_page_summary(refined_text) == refined_text

store_combined_page_summary(combined_text) == combined_text

(* StructuredTool: args are validated against args_schema, then the function
   runs on the field's value *)
ArgsValid(name, args) == args.key = SchemaField(name)

store_converted_page_tool(args) == store_converted_page(args.text)

store_refined_page_summary_tool(args) == store_refined_page_summary(args.text)

----------------------------------------------------------------------------
(* What a bound chat model may answer *)

ConformingCalls ==
    {[name |-> n, args |-> [key |-> SchemaField(n), text |-> t]] :
        n \in ToolNames, t \in Texts}

MalformedCalls ==
    {[name |-> n, args |-> [key |-> "unknown_field", text |-> 1]] :
        n \in {"StoreConvertedPage", "StoreRefinedPageSummary"}}

LastCalls == ConformingCalls \cup MalformedCalls

EarlierCalls ==
    {[name |-> n, args |-> [key |-> SchemaField(n), text |-> 1]] :
        n \in {"StoreConvertedPage", "StoreRefinedPageSummary"}}

(* the calls that may precede the last one: up to MaxToolCalls - 1 repeats of one call *)
EarlierCallLists ==
    {<<>>} \cup {[i \in 1..k |-> e] : e \in EarlierCalls, k \in 1..(MaxToolCalls - 1)}

ToolCallLists ==
    {<<>>} \cup {Append(p, l) : p \in EarlierCallLists, l \in LastCalls}

(* the AIMessage of a response: the provider names it and its tool calls *)
Response(oid, calls) ==
    [type |-> "ai", oid |-> oid, id |-> oid,
     content |-> [text |-> "response", args |-> <<>>],
     tool_calls |-> [i \in DOMAIN calls |->
                        [name |-> calls[i].name, args |-> calls[i].args,
                         id |-> <<oid, i>>]],
     tool_call_id |-> NoId, name |-> ""]

Last(s) == s[Len(s)]

----------------------------------------------------------------------------
(* The add_messages reducer of convert_turns and refine_turns *)

AssignId(m) == IF m.id = 0 THEN [m EXCEPT !.id = m.oid] ELSE m

RECURSIVE MergeById(_, _)
MergeById(merged, right) ==
    IF right = <<>> THEN merged
    ELSE LET m == Head(right)
             hit == {i \in DOMAIN merged : merged[i].id = m.id}
         IN  IF hit # {}
             THEN MergeById([merged EXCEPT ![CHOOSE i \in hit : TRUE] = m], Tail(right))
             ELSE MergeById(Append(merged, m), Tail(right))

(* a channel without a reducer: the update takes the place of the list *)
add_messages_overwrites(left, right) == [i \in DOMAIN right |-> AssignId(right[i])]

(* a reducer that appends without looking at the ids (operator.add) *)
add_messages_append_only(left, right) ==
    [i \in DOMAIN left |-> AssignId(left[i])] \o [i \in DOMAIN right |-> AssignId(right[i])]

add_messages(left, right) ==
    MergeById([i \in DOMAIN left |-> AssignId(left[i])],
              [i \in DOMAIN right |-> AssignId(right[i])])


----------------------------------------------------------------------------
(* The components at rest: each specification runs one component and leaves
   the others as they are here *)

Urls == {<<"a">>, <<"b">>}

BatchIdle ==
    /\ scraped_page = [url |-> <<>>, content |-> <<>>]
    /\ batched_context = <<>>
    /\ response_batched = <<>>
    /\ group_start = 0
    /\ started = {}
    /\ completed = <<>>
    /\ sent = <<>>
    /\ groups_run = 0
    /\ conversion_passes = <<>>
    /\ b_pc = "idle"
    /\ b_err = "none"

NoPass == [url |-> <<>>, text |-> 0, turns |-> <<>>]

ChainIdle ==
    /\ c_fn = "none"
    /\ c_args = [url |-> <<>>, text |-> 0, refined |-> 0, turns |-> <<>>]
    /\ c_caller_turns = <<>>
    /\ c_invocations = <<>>
    /\ c_result = NoPass
    /\ c_pc = "idle"
    /\ c_err = "none"

MainIdle ==
    /\ urls = <<>>
    /\ url_list = <<>>
    /\ scraped_pages = <<>>
    /\ pass_results = NoPass
    /\ page_results = <<>>
    /\ combined_summary = NoPass
    /\ final_summary = <<>>
    /\ output_file = <<>>
    /\ passes_called = <<>>
    /\ m_pc = "idle"
    /\ m_err = "none"

ScraperIdle ==
    /\ s_elements = <<>>
    /\ s_pos = 0
    /\ page_structure = <<>>
    /\ current_heading = <<>>
    /\ s_pc = "idle"
    /\ s_err = "none"

(* a state with no channel written *)
EmptyState ==
    [keys |-> {}, raw_page |-> 0, converted_page |-> 0, refined_page |-> 0,
     convert_turns |-> <<>>, refine_turns |-> <<>>,
     convert_complete |-> FALSE, refine_1st_complete |-> FALSE,
     refine_2nd_complete |-> FALSE]

GraphIdle ==
    /\ keys = {}
    /\ raw_page = 0
    /\ converted_page = 0
    /\ refined_page = 0
    /\ convert_turns = <<>>
    /\ refine_turns = <<>>
    /\ convert_complete = FALSE
    /\ refine_1st_complete = FALSE
    /\ refine_2nd_complete = FALSE
    /\ pc = "idle"
    /\ err = "none"
    /\ executed = <<>>
    /\ invoked = <<>>
    /\ nextOid = 1
    /\ final_state = EmptyState
    /\ thread = 0
    /\ resumed = FALSE
    /\ runs = 0
    /\ checkpoints = [t \in Threads |-> <<>>]

----------------------------------------------------------------------------
(* SUMMARIZE_GRAPH: the state handed to a run *)

StateKeys == {"raw_page", "converted_page", "refined_page", "convert_turns",
              "refine_turns", "convert_complete", "refine_1st_complete",
              "refine_2nd_complete"}

(* the values of the state's channels *)
StateValues ==
    [keys |-> keys, raw_page |-> raw_page, converted_page |-> converted_page,
     refined_page |-> refined_page, convert_turns |-> convert_turns,
     refine_turns |-> refine_turns, convert_complete |-> convert_complete,
     refine_1st_complete |-> refine_1st_complete,
     refine_2nd_complete |-> refine_2nd_complete]

(* state.get(key, default) *)
StateGet(key, value, default) == IF key \in keys THEN value ELSE default

(* a turn left over from earlier use of the state *)
StaleTurn(oid) == HumanMessage(oid, "Please convert the source text into markdown and store it.")

GraphInit ==
    /\ keys \in SUBSET (StateKeys \ {"converted_page", "refined_page"})
    /\ raw_page \in IF "raw_page" \in keys THEN {0} \cup Pages ELSE {0}
    /\ converted_page = 0
    /\ refined_page = 0
    /\ convert_turns \in IF "convert_turns" \in keys
                         THEN {<<>>, add_messages(<<>>, <<StaleTurn(1)>>)} ELSE {<<>>}
    /\ refine_turns \in IF "refine_turns" \in keys
                        THEN {<<>>, add_messages(<<>>, <<StaleTurn(2)>>)} ELSE {<<>>}
    /\ convert_complete \in IF "convert_complete" \in keys THEN BOOLEAN ELSE {FALSE}
    /\ refine_1st_complete \in IF "refine_1st_complete" \in keys THEN BOOLEAN ELSE {FALSE}
    /\ refine_2nd_complete \in IF "refine_2nd_complete" \in keys THEN BOOLEAN ELSE {FALSE}
    /\ pc = "node_validate_starting_state"
    /\ err = "none"
    /\ executed = <<>>
    /\ invoked = <<>>
    /\ nextOid = 3
    /\ final_state = StateValues
    /\ thread = 1
    /\ resumed = FALSE
    /\ runs = 1
    /\ checkpoints = [t \in Threads |-> IF t = 1 THEN <<StateValues>> ELSE <<>>]

pageVars == <<raw_page, converted_page, refined_page>>
turnVars == <<convert_turns, refine_turns>>
flagVars == <<convert_complete, refine_1st_complete, refine_2nd_complete>>

(* what stream_mode="updates" would hand over after a step: the channels the
   node wrote, the others left out *)
stream_mode_updates ==
    [keys |-> keys' \ keys,
     raw_page |-> 0,
     converted_page |-> IF pc = "node_store_text_convert" THEN converted_page' ELSE 0,
     refined_page |-> IF pc = "node_store_text_refine" THEN refined_page' ELSE 0,
     convert_turns |-> SubSeq(convert_turns', Len(convert_turns) + 1, Len(convert_turns')),
     refine_turns |-> SubSeq(refine_turns', Len(refine_turns) + 1, Len(refine_turns')),
     convert_complete |-> convert_complete' /\ ~convert_complete,
     refine_1st_complete |-> refine_1st_complete' /\ ~refine_1st_complete,
     refine_2nd_complete |-> refine_2nd_complete' /\ ~refine_2nd_complete]

(* lines 290-294, stream_mode="values": after a step the stream hands over the
   values of all channels *)
stream_mode_values == StateValues'

(* lines 297-301: final_state is the state streamed last *)
Streamed == final_state' = stream_mode_values

(* a checkpointer that keeps one state for all threads *)
SaveCheckpoint_shared(saved, t, values) == [u \in DOMAIN saved |-> <<values>>]

(* line 286, compile(checkpointer=checkpointer): the state is saved under the
   thread id of the run *)
SaveCheckpoint(saved, t, values) == [saved EXCEPT ![t] = <<values>>]

(* after a step the state is saved for the thread of the run *)
Checkpointed ==
    /\ checkpoints' = SaveCheckpoint(checkpoints, thread, StateValues')
    /\ UNCHANGED <<thread, resumed, runs>>

(* a node raises: the run stops and none of the node's writes is applied *)
Raise(node, error) ==
    /\ pc' = "RAISED"
    /\ err' = error
    /\ executed' = Append(executed, node)
    /\ UNCHANGED <<keys, pageVars, turnVars, flagVars, nextOid>>
    /\ UNCHANGED nonGraphVars

----------------------------------------------------------------------------
(* SUMMARIZE_GRAPH: the conditional edge *)

(* next_node with the two refinement tests in the other order *)
next_node_refine_qc_first(cc, r1c, r2c) ==
    IF ~cc THEN "node_invoke_llm_convert_2nd_pass"
    ELSE IF cc /\ ~r2c THEN "node_invoke_llm_refine_2nd_pass"
    ELSE IF cc /\ ~r1c THEN "node_invoke_llm_refine_initial"
    ELSE "END"

(* next_node that ends the run once the first refinement is done *)
next_node_no_refine_qc(cc, r1c, r2c) ==
    IF ~cc THEN "node_invoke_llm_convert_2nd_pass"
    ELSE IF cc /\ ~r1c THEN "node_invoke_llm_refine_initial"
    ELSE "END"

(* next_node that goes on to the refinement before the conversion is complete *)
next_node_skips_2nd_conversion(cc, r1c, r2c) ==
    IF ~r1c THEN "node_invoke_llm_refine_initial"
    ELSE IF ~r2c THEN "node_invoke_llm_refine_2nd_pass"
    ELSE "END"

(* next_node that goes back to the second refinement pass instead of ending *)
next_node_never_ends(cc, r1c, r2c) ==
    IF ~cc THEN "node_invoke_llm_convert_2nd_pass"
    ELSE IF cc /\ ~r1c THEN "node_invoke_llm_refine_initial"
    ELSE "node_invoke_llm_refine_2nd_pass"

next_node(cc, r1c, r2c) ==
    IF ~cc THEN "node_invoke_llm_convert_2nd_pass"
    ELSE IF cc /\ ~r1c THEN "node_invoke_llm_refine_initial"
    ELSE IF cc /\ ~r2c THEN "node_invoke_llm_refine_2nd_pass"
    ELSE "END"

----------------------------------------------------------------------------
(* SUMMARIZE_GRAPH: the nodes *)

(* a validation that forgets the refinement flags *)
InvalidStartingState_convert_flag_only ==
    \/ StateGet("raw_page", raw_page, 0) = 0
    \/ StateGet("convert_turns", convert_turns, <<>>) # <<>>
    \/ StateGet("refine_turns", refine_turns, <<>>) # <<>>
    \/ StateGet("convert_complete", convert_complete, FALSE)

InvalidStartingState ==
    \/ StateGet("raw_page", raw_page, 0) = 0
    \/ StateGet("convert_turns", convert_turns, <<>>) # <<>>
    \/ StateGet("refine_turns", refine_turns, <<>>) # <<>>
    \/ StateGet("convert_complete", convert_complete, FALSE)
    \/ StateGet("refine_1st_complete", refine_1st_complete, FALSE)
    \/ StateGet("refine_2nd_complete", refine_2nd_complete, FALSE)

node_validate_starting_state ==
    /\ pc = "node_validate_starting_state"
    /\ UNCHANGED nonGraphVars
    /\ IF InvalidStartingState
       THEN /\ Raise("node_validate_starting_state", "InvalidStateError")
            /\ UNCHANGED invoked
       ELSE /\ convert_turns' = add_messages(convert_turns, <<>>)
            /\ refine_turns' = add_messages(refine_turns, <<>>)
            /\ convert_complete' = FALSE
            /\ refine_1st_complete' = FALSE
            /\ refine_2nd_complete' = FALSE
            /\ keys' = keys \cup {"convert_turns", "refine_turns", "convert_complete",
                                  "refine_1st_complete", "refine_2nd_complete"}
            /\ pc' = "node_invoke_llm_convert_initial"
            /\ executed' = Append(executed, "node_validate_starting_state")
            /\ UNCHANGED <<pageVars, err, invoked, nextOid>>
    /\ Streamed
    /\ Checkpointed

(* llm.invoke(turns) raises: the node raises with it *)
InvokeRaises(node, turns) ==
    /\ invoked' = Append(invoked, [node |-> node, turns |-> turns, response |-> <<>>])
    /\ Raise(node, "ProviderError")

node_invoke_llm_convert_initial ==
    /\ pc = "node_invoke_llm_convert_initial"
    /\ LET node == "node_invoke_llm_convert_initial"
           turns == convert_turns \o
                    <<get_page_to_markdown_prompt_template(nextOid, Str(raw_page)),
                      HumanMessage(nextOid + 1, "Please convert the source text into markdown and store it.")>>
       IN  \/ InvokeRaises(node, turns)
           \/ \E calls \in ToolCallLists, aliased \in BOOLEAN :
                 LET response == Response(nextOid + 2, calls)
                     returned == Append(turns, response)
                     \* the node appends to the list it read from the state: the
                     \* channel sees the appends when it holds that same list
                     left == IF aliased THEN returned ELSE convert_turns
                 IN  /\ convert_turns' = add_messages(left, returned)
                     /\ invoked' = Append(invoked, [node |-> node, turns |-> turns,
                                                    response |-> <<response>>])
                     /\ nextOid' = nextOid + 3
                     /\ pc' = "node_store_text_convert"
                     /\ executed' = Append(executed, node)
                     /\ UNCHANGED <<keys, pageVars, refine_turns, flagVars, err, nonGraphVars>>
    /\ Streamed
    /\ Checkpointed

node_invoke_llm_convert_2nd_pass ==
    /\ pc = "node_invoke_llm_convert_2nd_pass"
    /\ LET node == "node_invoke_llm_convert_2nd_pass"
           new_turns == <<AIMessage(nextOid, "I stored the converted text.", <<Str(converted_page)>>),
                          HumanMessage(nextOid + 1, "Please review the converted text and store it.")>>
           all_turns == convert_turns \o new_turns
       IN  \/ InvokeRaises(node, all_turns)
           \/ \E calls \in ToolCallLists :
                 /\ convert_turns' = add_messages(convert_turns,
                                         Append(new_turns, Response(nextOid + 2, calls)))
                 /\ convert_complete' = TRUE
                 /\ invoked' = Append(invoked, [node |-> node, turns |-> all_turns,
                                                response |-> <<Response(nextOid + 2, calls)>>])
                 /\ nextOid' = nextOid + 3
                 /\ pc' = "node_store_text_convert"
                 /\ executed' = Append(executed, node)
                 /\ UNCHANGED <<keys, pageVars, refine_turns, refine_1st_complete,
                                refine_2nd_complete, err, nonGraphVars>>
    /\ Streamed
    /\ Checkpointed

node_invoke_llm_refine_initial ==
    /\ pc = "node_invoke_llm_refine_initial"
    /\ LET node == "node_invoke_llm_refine_initial"
           turns == refine_turns \o
                    <<get_page_summary_prompt_template(nextOid, Str(converted_page)),
                      HumanMessage(nextOid + 1, "Please refine the source text and store it.")>>
       IN  \/ InvokeRaises(node, turns)
           \/ \E calls \in ToolCallLists, aliased \in BOOLEAN :
                 LET response == Response(nextOid + 2, calls)
                     returned == Append(turns, response)
                     left == IF aliased THEN returned ELSE refine_turns
                 IN  /\ refine_turns' = add_messages(left, returned)
                     /\ refine_1st_complete' = TRUE
                     /\ invoked' = Append(invoked, [node |-> node, turns |-> turns,
                                                    response |-> <<response>>])
                     /\ nextOid' = nextOid + 3
                     /\ pc' = "node_store_text_refine"
                     /\ executed' = Append(executed, node)
                     /\ UNCHANGED <<keys, pageVars, convert_turns, convert_complete,
                                    refine_2nd_complete, err, nonGraphVars>>
    /\ Streamed
    /\ Checkpointed

node_invoke_llm_refine_2nd_pass ==
    /\ pc = "node_invoke_llm_refine_2nd_pass"
    /\ LET node == "node_invoke_llm_refine_2nd_pass"
           new_turns == <<AIMessage(nextOid, "I stored the refined text.", <<Str(refined_page)>>),
                          HumanMessage(nextOid + 1, "Please review the refined text and store it.")>>
           all_turns == refine_turns \o new_turns
       IN  \/ InvokeRaises(node, all_turns)
           \/ \E calls \in ToolCallLists :
                 /\ refine_turns' = add_messages(refine_turns,
                                        Append(new_turns, Response(nextOid + 2, calls)))
                 /\ refine_2nd_complete' = TRUE
                 /\ invoked' = Append(invoked, [node |-> node, turns |-> all_turns,
                                                response |-> <<Response(nextOid + 2, calls)>>])
                 /\ nextOid' = nextOid + 3
                 /\ pc' = "node_store_text_refine"
                 /\ executed' = Append(executed, node)
                 /\ UNCHANGED <<keys, pageVars, convert_turns, convert_complete,
                                refine_1st_complete, err, nonGraphVars>>
    /\ Streamed
    /\ Checkpointed

(* the store nodes' test of the tool call's name *)
(* a name test that lets every known tool through *)
IsStoreConvertedPage_any_tool(tool_call) == tool_call.name \in ToolNames

IsStoreConvertedPage(tool_call) == tool_call.name = "StoreConvertedPage"

IsStoreRefinedPageSummary(tool_call) == tool_call.name = "StoreRefinedPageSummary"

node_store_text_convert ==
    /\ pc = "node_store_text_convert"
    /\ UNCHANGED invoked
    /\ LET node == "node_store_text_convert"
           calls == Last(convert_turns).tool_calls
       IN  IF calls = <<>>
           THEN Raise(node, "IndexError")
           ELSE LET tool_call == Last(calls)
                IN  IF IsStoreConvertedPage(tool_call)
                    THEN IF ~ArgsValid("StoreConvertedPage", tool_call.args)
                         THEN Raise(node, "ValidationError")
                         ELSE /\ converted_page' = store_converted_page_tool(tool_call.args)
                              /\ convert_turns' = add_messages(convert_turns,
                                    <<ToolMessage(nextOid, "StoreConvertedPage",
                                                  "Stored the converted text", tool_call.id)>>)
                              /\ keys' = keys \cup {"converted_page"}
                              /\ nextOid' = nextOid + 1
                              /\ pc' = next_node(convert_complete, refine_1st_complete,
                                                 refine_2nd_complete)
                              /\ executed' = Append(executed, node)
                              /\ UNCHANGED <<raw_page, refined_page, refine_turns, flagVars, err, nonGraphVars>>
                    ELSE Raise(node, "ValueError")
    /\ Streamed
    /\ Checkpointed

node_store_text_refine ==
    /\ pc = "node_store_text_refine"
    /\ UNCHANGED invoked
    /\ LET node == "node_store_text_refine"
           calls == Last(refine_turns).tool_calls
       IN  IF calls = <<>>
           THEN Raise(node, "IndexError")
           ELSE LET tool_call == Last(calls)
                IN  IF IsStoreRefinedPageSummary(tool_call)
                    THEN IF ~ArgsValid("StoreRefinedPageSummary", tool_call.args)
                         THEN Raise(node, "ValidationError")
                         ELSE /\ refined_page' = store_refined_page_summary_tool(tool_call.args)
                              /\ refine_turns' = add_messages(refine_turns,
                                    <<ToolMessage(nextOid, "StoreRefinedPageSummary",
                                                  "Stored the refined text", tool_call.id)>>)
                              /\ keys' = keys \cup {"refined_page"}
                              /\ nextOid' = nextOid + 1
                              /\ pc' = next_node(convert_complete, refine_1st_complete,
                                                 refine_2nd_complete)
                              /\ executed' = Append(executed, node)
                              /\ UNCHANGED <<raw_page, converted_page, convert_turns, flagVars, err, nonGraphVars>>
                    ELSE Raise(node, "ValueError")
    /\ Streamed
    /\ Checkpointed

GraphNext ==
    \/ node_validate_starting_state
    \/ node_invoke_llm_convert_initial
    \/ node_invoke_llm_convert_2nd_pass
    \/ node_invoke_llm_refine_initial
    \/ node_invoke_llm_refine_2nd_pass
    \/ node_store_text_convert
    \/ node_store_text_refine

Next == GraphNext

Init == GraphInit /\ BatchIdle /\ ChainIdle /\ MainIdle /\ ScraperIdle

Spec == Init /\ [][Next]_vars


----------------------------------------------------------------------------
(* SUMMARIZE_GRAPH_RUNNER: runs on the threads of the checkpointer *)

(* the inputs given to run_workflow: a page to summarise, or nothing *)
RunInputs ==
    {[EmptyState EXCEPT !.keys = {"raw_page"}, !.raw_page = p] : p \in Pages}
    \cup {EmptyState}

(* the state a run begins with: the checkpoint of the thread, if there is one,
   with the channels of the input written over it *)
StartingState(saved, input) ==
    IF saved = <<>>
    THEN input
    ELSE [saved[1] EXCEPT !.keys = @ \cup input.keys,
                          !.raw_page = IF "raw_page" \in input.keys
                                       THEN input.raw_page ELSE @]

(* lines 289-294: run_workflow(summarize_state, thread) with summarize_state the
   input, called while no run is under way *)
run_workflow ==
    /\ pc \in {"idle", "END"}
    /\ runs < MaxRuns
    /\ \E input \in RunInputs, t \in Threads :
          LET start == StartingState(checkpoints[t], input)
          IN  /\ thread' = t
              /\ resumed' = (checkpoints[t] # <<>>)
              /\ keys' = start.keys
              /\ raw_page' = start.raw_page
              /\ converted_page' = start.converted_page
              /\ refined_page' = start.refined_page
              /\ convert_turns' = start.convert_turns
              /\ refine_turns' = start.refine_turns
              /\ convert_complete' = start.convert_complete
              /\ refine_1st_complete' = start.refine_1st_complete
              /\ refine_2nd_complete' = start.refine_2nd_complete
              /\ final_state' = start
              /\ checkpoints' = SaveCheckpoint(checkpoints, t, start)
    /\ runs' = runs + 1
    /\ pc' = "node_validate_starting_state"
    /\ err' = "none"
    /\ executed' = <<>>
    /\ invoked' = <<>>
    /\ UNCHANGED <<nextOid, nonGraphVars>>

ResponseCallsNodeTool(inv) ==
    LET tool_call == inv.response[1].tool_calls[1]
    IN  /\ tool_call.name = IF inv.node \in {"node_invoke_llm_convert_initial",
                                              "node_invoke_llm_convert_2nd_pass"}
                            THEN "StoreConvertedPage" ELSE "StoreRefinedPageSummary"
        /\ tool_call.args = [key |-> SchemaField(tool_call.name), text |-> 1]

(* the model answers with one call of the node's tool that stores the first
   text, or with no call *)
PlainAnswers ==
    \A i \in DOMAIN invoked :
       invoked[i].response # <<>> =>
          \/ invoked[i].response[1].tool_calls = <<>>
          \/ /\ Len(invoked[i].response[1].tool_calls) = 1
             /\ ResponseCallsNodeTool(invoked[i])

ThreadsNext ==
    \/ run_workflow
    \/ GraphNext /\ PlainAnswers'

InitThreads == GraphIdle /\ BatchIdle /\ ChainIdle /\ MainIdle /\ ScraperIdle

SpecThreads == InitThreads /\ [][ThreadsNext]_vars

----------------------------------------------------------------------------
(* chain.py: perform_initial_conversion_batched *)

group_size == 3

(* json.dumps of a value *)
JsonDumps(x) == [enc |-> "json", v |-> x]

Min(a, b) == IF a <= b THEN a ELSE b

(* the identities of the objects made for the section at position j of n *)
PromptOid(j) == 3 * j - 2
RequestOid(j) == 3 * j - 1
ResponseOid(j) == 3 * j
ToolMessageOid(j, n) == 3 * n + j

(* llm_convert_w_tools is bound to the conversion tool alone: no call, one call
   of it, or earlier calls of it with text 1 before a call with the last text *)
StoreConvertedPageCall(t) ==
    [name |-> "StoreConvertedPage", args |-> [key |-> "markdown_text", text |-> t]]

BatchCallLists ==
    {<<>>} \cup {<<StoreConvertedPageCall(t)>> : t \in Texts}
           \cup {Append([i \in 1..k |-> StoreConvertedPageCall(1)], StoreConvertedPageCall(NumTexts)) :
                    k \in 1..(MaxToolCalls - 1)}

BatchInit ==
    /\ scraped_page \in {[url |-> u, content |-> [j \in 1..n |-> j]] :
                            u \in Urls, n \in 0..MaxSections}
    /\ batched_context = <<>>
    /\ response_batched = <<>>
    /\ group_start = 0
    /\ started = {}
    /\ completed = <<>>
    /\ sent = <<>>
    /\ groups_run = 0
    /\ conversion_passes = <<>>
    /\ b_pc = "start"
    /\ b_err = "none"

(* lines 76-85: one [system prompt, human request] per section, in the order of
   scraped_page.content.items() *)
BuildContext ==
    /\ b_pc = "start"
    /\ batched_context' =
          [j \in 1..Len(scraped_page.content) |->
              <<get_page_to_markdown_prompt_template(PromptOid(j),
                                                     JsonDumps(scraped_page.content[j])),
                HumanMessage(RequestOid(j),
                             "Please convert the source text into markdown and store it.")>>]
    /\ sent' = [j \in 1..Len(scraped_page.content) |-> 0]
    /\ b_pc' = "loop"
    /\ UNCHANGED <<scraped_page, response_batched, group_start, started, completed,
                   groups_run, conversion_passes, b_err, nonBatchVars>>

(* a slice that takes one position too many *)
SectionGroup_one_more(i) ==
    [k \in 1..(Min(i + group_size + 1, Len(batched_context)) - i) |-> i + k]

(* the positions of batched_context[i:i + group_size] *)
SectionGroup(i) ==
    [k \in 1..(Min(i + group_size, Len(batched_context)) - i) |-> i + k]

Range(f) == {f[x] : x \in DOMAIN f}

InFlight == started \ {completed[k].pos : k \in DOMAIN completed}

(* lines 96-98: the next group is sliced and handed to asyncio.run *)
StartGroup ==
    /\ b_pc = "loop"
    /\ group_start < Len(batched_context)
    /\ b_pc' = "gather"
    /\ started' = {}
    /\ completed' = <<>>
    /\ groups_run' = groups_run + 1
    /\ UNCHANGED <<scraped_page, batched_context, response_batched, group_start, sent,
                   conversion_passes, b_err, nonBatchVars>>

(* lines 71-72: the event loop begins the calls of the group in their order *)
StartCall ==
    /\ b_pc = "gather"
    /\ Range(SectionGroup(group_start)) \ started # {}
    /\ LET j == CHOOSE x \in Range(SectionGroup(group_start)) \ started :
                   \A y \in Range(SectionGroup(group_start)) \ started : x <= y
       IN  /\ started' = started \cup {j}
           /\ sent' = [sent EXCEPT ![j] = @ + 1]
    /\ UNCHANGED <<scraped_page, batched_context, response_batched, group_start, completed,
                   groups_run, conversion_passes, b_pc, b_err, nonBatchVars>>

(* a call in flight returns its response; the calls end in any order *)
CompleteCall ==
    /\ b_pc = "gather"
    /\ \E j \in InFlight, calls \in BatchCallLists :
          completed' = Append(completed,
                              [pos |-> j, response |-> Response(ResponseOid(j), calls)])
    /\ UNCHANGED <<scraped_page, batched_context, response_batched, group_start, started,
                   sent, groups_run, conversion_passes, b_pc, b_err, nonBatchVars>>

(* a call in flight raises: gather raises with it, asyncio.run cancels the calls
   still in flight and the function is left *)
CallRaises ==
    /\ b_pc = "gather"
    /\ InFlight # {}
    /\ started' = {completed[k].pos : k \in DOMAIN completed}
    /\ b_pc' = "RAISED"
    /\ b_err' = "ProviderError"
    /\ UNCHANGED <<scraped_page, batched_context, response_batched, group_start, completed,
                   sent, groups_run, conversion_passes, nonBatchVars>>

(* results taken in the order the calls ended (asyncio.as_completed) *)
GatherResults_as_completed(group, done) ==
    [k \in 1..Len(done) |-> done[k].response]

(* asyncio.gather: the results in the order of the awaitables *)
GatherResults(group, done) ==
    [k \in 1..Len(group) |-> (CHOOSE r \in Range(done) : r.pos = group[k]).response]

(* line 98: every call of the group has returned; the results extend
   response_batched and the loop steps on *)
EndGroup ==
    /\ b_pc = "gather"
    /\ Range(SectionGroup(group_start)) = {completed[k].pos : k \in DOMAIN completed}
    /\ response_batched' = response_batched \o
                              GatherResults(SectionGroup(group_start), completed)
    /\ group_start' = group_start + group_size
    /\ b_pc' = "loop"
    /\ UNCHANGED <<scraped_page, batched_context, started, completed, sent, groups_run,
                   conversion_passes, b_err, nonBatchVars>>

(* the pass made of one section's turns and response, lines 103-125 *)
ConversionPass(j) ==
    LET section_response == response_batched[j]
        tool_call == Last(section_response.tool_calls)
    IN  [url |-> scraped_page.url,
         text |-> store_converted_page_tool(tool_call.args),
         turns |-> batched_context[j] \o
                   <<section_response,
                     ToolMessage(ToolMessageOid(j, Len(batched_context)), "StoreConvertedPage",
                                 "Stored the converted text", tool_call.id)>>]

(* what the loop of lines 102-125 raises for section j, or "none" *)
SectionError(j) ==
    IF j > Len(response_batched) THEN "IndexError"
    ELSE IF response_batched[j].tool_calls = <<>> THEN "IndexError"
    ELSE IF ~ArgsValid("StoreConvertedPage", Last(response_batched[j].tool_calls).args)
         THEN "ValidationError"
    ELSE "none"

(* lines 100-127: the loop over the groups is over; the responses are turned
   into passes, in the order of the sections *)
ProcessResults ==
    /\ b_pc = "loop"
    /\ group_start >= Len(batched_context)
    /\ LET bad == {j \in DOMAIN batched_context : SectionError(j) # "none"}
       IN  IF bad # {}
           THEN /\ b_pc' = "RAISED"
                /\ b_err' = SectionError(CHOOSE j \in bad : \A k \in bad : j <= k)
                /\ UNCHANGED conversion_passes
           ELSE /\ b_pc' = "returned"
                /\ conversion_passes' = [j \in DOMAIN batched_context |-> ConversionPass(j)]
                /\ UNCHANGED b_err
    /\ UNCHANGED <<scraped_page, batched_context, response_batched, group_start, started,
                   completed, sent, groups_run, nonBatchVars>>

BatchNext ==
    \/ BuildContext
    \/ StartGroup
    \/ StartCall
    \/ CompleteCall
    \/ CallRaises
    \/ EndGroup
    \/ ProcessResults

InitBatch == BatchInit /\ GraphIdle /\ ChainIdle /\ MainIdle /\ ScraperIdle

SpecBatch == InitBatch /\ [][BatchNext]_vars


----------------------------------------------------------------------------
(* chain.py: perform_initial_refinement and perform_quality_control *)

get_page_refine_prompt_template(oid, source_text) ==
    SystemMessage(oid, "page_refine_prompt_template", <<JsonDumps(source_text)>>)

get_page_qc_prompt_template(oid, source_text, refined_text) ==
    SystemMessage(oid, "page_qc_prompt_template", <<Str(source_text), Str(refined_text)>>)

(* the identities of the four objects a pass makes *)
PassOid == 10

(* a pass that reads the first tool call of the response *)
PassToolCall_first(response) == response.tool_calls[1]

(* tool_call = response.tool_calls[-1] *)
PassToolCall(response) == Last(response.tool_calls)

(* the steps of a pass after llm_refine_w_tools.invoke(turns) has returned
   response: the response is appended, the last tool call is run through the
   refinement tool and answered by a tool message.  [err, text, turns], turns
   being the list as the pass leaves it *)
RefinePassOutcome(turns, response) ==
    LET with_response == Append(turns, response)
    IN  IF response.tool_calls = <<>>
        THEN [err |-> "IndexError", text |-> 0, turns |-> with_response]
        ELSE LET tool_call == PassToolCall(response)
             IN  IF ~ArgsValid("StoreRefinedPageSummary", tool_call.args)
                 THEN [err |-> "ValidationError", text |-> 0, turns |-> with_response]
                 ELSE [err |-> "none",
                       text |-> store_refined_page_summary_tool(tool_call.args),
                       turns |-> Append(with_response,
                                        ToolMessage(PassOid + 3, "StoreRefinedPageSummary",
                                                    "Stored the refined text", tool_call.id))]

StaleTurns == {<<>>, <<StaleTurn(1)>>}

ChainInit ==
    /\ c_fn \in {"perform_initial_refinement", "perform_quality_control"}
    /\ c_args \in IF c_fn = "perform_initial_refinement"
                  THEN [url : Urls, text : Texts, refined : {0}, turns : StaleTurns]
                  ELSE [url : Urls, text : Texts, refined : Texts, turns : {<<>>}]
    /\ c_caller_turns = c_args.turns
    /\ c_invocations = <<>>
    /\ c_result = NoPass
    /\ c_pc = "call"
    /\ c_err = "none"

(* the turns the pass works on are the caller's list, prompt and request
   appended to it in place *)
perform_initial_refinement ==
    /\ c_pc = "call"
    /\ c_fn = "perform_initial_refinement"
    /\ LET refinement_turns ==
               c_args.turns \o
               <<get_page_refine_prompt_template(PassOid, c_args.text),
                 HumanMessage(PassOid + 1, "Please refine the source text and store it.")>>
       IN  \/ /\ c_invocations' = Append(c_invocations, [turns |-> refinement_turns, response |-> <<>>])
              /\ c_caller_turns' = refinement_turns
              /\ c_pc' = "RAISED"
              /\ c_err' = "ProviderError"
              /\ UNCHANGED c_result
           \/ \E calls \in ToolCallLists :
                 LET response == Response(PassOid + 2, calls)
                     outcome == RefinePassOutcome(refinement_turns, response)
                 IN  /\ c_invocations' = Append(c_invocations, [turns |-> refinement_turns,
                                                            response |-> <<response>>])
                     /\ c_caller_turns' = outcome.turns
                     /\ c_err' = outcome.err
                     /\ IF outcome.err = "none"
                        THEN /\ c_pc' = "returned"
                             /\ c_result' = [url |-> c_args.url, text |-> outcome.text,
                                             turns |-> outcome.turns]
                        ELSE /\ c_pc' = "RAISED"
                             /\ UNCHANGED c_result
    /\ UNCHANGED <<c_fn, c_args, nonChainVars>>

(* the pass starts from an empty turn list of its own *)
perform_quality_control ==
    /\ c_pc = "call"
    /\ c_fn = "perform_quality_control"
    /\ LET qc_turns ==
               <<get_page_qc_prompt_template(PassOid, c_args.text, c_args.refined),
                 HumanMessage(PassOid + 1,
                     "Please perform a quality control pass on the refined doc and store it.")>>
       IN  \/ /\ c_invocations' = Append(c_invocations, [turns |-> qc_turns, response |-> <<>>])
              /\ c_pc' = "RAISED"
              /\ c_err' = "ProviderError"
              /\ UNCHANGED c_result
           \/ \E calls \in ToolCallLists :
                 LET response == Response(PassOid + 2, calls)
                     outcome == RefinePassOutcome(qc_turns, response)
                 IN  /\ c_invocations' = Append(c_invocations, [turns |-> qc_turns,
                                                            response |-> <<response>>])
                     /\ c_err' = outcome.err
                     /\ IF outcome.err = "none"
                        THEN /\ c_pc' = "returned"
                             /\ c_result' = [url |-> c_args.url, text |-> outcome.text,
                                             turns |-> outcome.turns]
                        ELSE /\ c_pc' = "RAISED"
                             /\ UNCHANGED c_result
    /\ UNCHANGED <<c_fn, c_args, c_caller_turns, nonChainVars>>

ChainNext ==
    \/ perform_initial_refinement
    \/ perform_quality_control

InitChain == ChainInit /\ GraphIdle /\ BatchIdle /\ MainIdle /\ ScraperIdle

SpecChain == InitChain /\ [][ChainNext]_vars

----------------------------------------------------------------------------
(* gen_summary.py: main *)

UrlChars == {"a", "b", ","}

(* the strings --urls may be *)
UrlStrings == UNION {[1..n -> UrlChars] : n \in 0..MaxUrlChars}

(* str.split(','): the pieces between the commas, empty pieces included *)
RECURSIVE Split(_)
Split(s) ==
    IF \A i \in 1..Len(s) : s[i] # ","
    THEN <<s>>
    ELSE LET i == CHOOSE i \in 1..Len(s) : s[i] = "," /\ \A k \in 1..(i - 1) : s[k] # ","
         IN  <<SubSeq(s, 1, i - 1)>> \o Split(SubSeq(s, i + 1, Len(s)))

(* url=None of the state handed to the combined pass *)
NoUrl == <<"None">>

(* json.dumps of the list of the pages' texts *)
PageTexts(results) == [k \in DOMAIN results |-> results[k].text]

PassOrder == <<"perform_initial_conversion", "perform_conversion_qc",
               "perform_initial_refinement", "perform_refinement_qc">>

(* a pass of chain.py as the glossary has it: one round that sends the turns
   accumulated so far, followed by a prompt on the state's text and a request,
   to the model and records the text of the tool call of the response.
   [err, result] *)
SummarizationRound(fn, tool, oid, state, response) ==
    LET turns == state.turns \o
                 <<SystemMessage(oid, fn, <<state.text>>), HumanMessage(oid + 1, "request")>>
    IN  IF response.tool_calls = <<>>
        THEN [err |-> "IndexError", result |-> NoPass]
        ELSE LET tool_call == Last(response.tool_calls)
             IN  [err |-> "none",
                  result |-> [url |-> state.url, text |-> tool_call.args.text,
                              turns |-> turns \o
                                        <<response,
                                          ToolMessage(oid + 3, tool, "Stored", tool_call.id)>>]]

perform_initial_conversion(state, response) ==
    SummarizationRound("perform_initial_conversion", "StoreConvertedPage",
                       PassOid + 4, state, response)

perform_conversion_qc(state, response) ==
    SummarizationRound("perform_conversion_qc", "StoreConvertedPage",
                       PassOid + 8, state, response)

perform_refinement_qc(state, response) ==
    SummarizationRound("perform_refinement_qc", "StoreRefinedPageSummary",
                       PassOid + 12, state, response)

perform_combined_summary(state, response) ==
    SummarizationRound("perform_combined_summary", "StoreCombinedPageSummary",
                       PassOid + 16, state, response)

(* perform_initial_refinement of chain.py, given the response of its one call
   of the model.  [err, result] *)
InitialRefinement(initial_state, response) ==
    LET refinement_turns ==
            initial_state.turns \o
            <<get_page_refine_prompt_template(PassOid, initial_state.text),
              HumanMessage(PassOid + 1, "Please refine the source text and store it.")>>
        outcome == RefinePassOutcome(refinement_turns, response)
    IN  [err |-> outcome.err,
         result |-> IF outcome.err = "none"
                    THEN [url |-> initial_state.url, text |-> outcome.text,
                          turns |-> outcome.turns]
                    ELSE NoPass]

(* the one call a model bound to one tool answers with, or none *)
OneCallOf(tool) ==
    {<<>>} \cup {<<[name |-> tool, args |-> [key |-> SchemaField(tool), text |-> t]]>> :
                    t \in Texts}

MainInit ==
    /\ urls \in UrlStrings
    /\ url_list = <<>>
    /\ scraped_pages = <<>>
    /\ pass_results = NoPass
    /\ page_results = <<>>
    /\ combined_summary = NoPass
    /\ final_summary = <<>>
    /\ output_file = <<>>
    /\ passes_called = <<>>
    /\ m_pc = "split"
    /\ m_err = "none"

(* an exception handler that still writes what there is to the output file *)
MainRaise_writes_output(fn, error) ==
    /\ m_pc' = "RAISED"
    /\ m_err' = error
    /\ output_file' = Append(output_file, pass_results.text)
    /\ UNCHANGED <<pass_results, page_results, combined_summary, final_summary>>

(* an exception leaves main: the command ends there *)
MainRaise(fn, error) ==
    /\ m_pc' = "RAISED"
    /\ m_err' = error
    /\ UNCHANGED <<pass_results, page_results, combined_summary, final_summary, output_file>>

(* a loop that takes the pages from the last to the first *)
CurrentPage_reversed == Len(scraped_pages) - Len(page_results)

(* the page the loop of lines 29-63 is at *)
CurrentPage == Len(page_results) + 1

(* line 24 *)
MainSplit ==
    /\ m_pc = "split"
    /\ url_list' = Split(urls)
    /\ m_pc' = "scrape"
    /\ UNCHANGED <<urls, scraped_pages, pass_results, page_results, combined_summary,
                   final_summary, output_file, passes_called, m_err, nonMainVars>>

(* line 25: the next url of the list is scraped; an empty url, or a page that
   cannot be fetched or parsed, raises ScrapingError *)
MainScrape ==
    /\ m_pc = "scrape"
    /\ LET url == url_list[Len(scraped_pages) + 1]
       IN  \/ /\ m_pc' = "RAISED"
              /\ m_err' = "ScrapingError"
              /\ UNCHANGED scraped_pages
           \/ /\ url # <<>>
              /\ \E content \in Pages :
                    scraped_pages' = Append(scraped_pages, [url |-> url, content |-> content])
              /\ m_pc' = IF Len(scraped_pages) + 1 = Len(url_list)
                         THEN "perform_initial_conversion"
                         ELSE "scrape"
              /\ UNCHANGED m_err
    /\ UNCHANGED <<urls, url_list, pass_results, page_results, combined_summary,
                   final_summary, output_file, passes_called, nonMainVars>>

(* one pass of the loop body: the pass is called on state; it raises, or its
   result becomes pass_results *)
MainPass(fn, outcomes, next_pc) ==
    /\ passes_called' = Append(passes_called, [fn |-> fn, page |-> CurrentPage])
    /\ \/ MainRaise(fn, "ProviderError")
       \/ \E outcome \in outcomes :
             IF outcome.err # "none"
             THEN MainRaise(fn, outcome.err)
             ELSE /\ pass_results' = outcome.result
                  /\ m_pc' = next_pc
                  /\ UNCHANGED <<page_results, combined_summary, final_summary,
                                 output_file, m_err>>
    /\ UNCHANGED <<urls, url_list, scraped_pages, nonMainVars>>

(* lines 31-39 *)
MainInitialConversion ==
    /\ m_pc = "perform_initial_conversion"
    /\ LET page == scraped_pages[CurrentPage]
           initial_state_conversion ==
               [url |-> page.url, text |-> JsonDumps(page.content), turns |-> <<>>]
       IN  MainPass("perform_initial_conversion",
                    {perform_initial_conversion(initial_state_conversion,
                                                Response(PassOid + 6, c)) :
                         c \in OneCallOf("StoreConvertedPage")},
                    "perform_conversion_qc")

(* lines 42-44 *)
MainConversionQc ==
    /\ m_pc = "perform_conversion_qc"
    /\ MainPass("perform_conversion_qc",
                {perform_conversion_qc(pass_results, Response(PassOid + 10, c)) :
                     c \in OneCallOf("StoreConvertedPage")},
                "perform_initial_refinement")

(* a state that hands the turns of the conversion on to the refinement *)
InitialStateRefinement_keeps_turns(page, results) ==
    [url |-> page.url, text |-> results.text, turns |-> results.turns]

(* lines 47-51: initial_state_refinement *)
InitialStateRefinement(page, results) ==
    [url |-> page.url, text |-> results.text, turns |-> <<>>]

(* lines 47-54 *)
MainInitialRefinement ==
    /\ m_pc = "perform_initial_refinement"
    /\ LET page == scraped_pages[CurrentPage]
           initial_state_refinement == InitialStateRefinement(page, pass_results)
       IN  MainPass("perform_initial_refinement",
                    {InitialRefinement(initial_state_refinement, Response(PassOid + 2, c)) :
                         c \in OneCallOf("StoreRefinedPageSummary")},
                    "perform_refinement_qc")

(* lines 57-63: the last pass of the page, and its result joins page_results;
   the loop goes to the next page, or ends *)
MainRefinementQc ==
    /\ m_pc = "perform_refinement_qc"
    /\ passes_called' = Append(passes_called,
                               [fn |-> "perform_refinement_qc", page |-> CurrentPage])
    /\ \/ MainRaise("perform_refinement_qc", "ProviderError")
       \/ \E c \in OneCallOf("StoreRefinedPageSummary") :
             LET outcome == perform_refinement_qc(pass_results, Response(PassOid + 14, c))
             IN  IF outcome.err # "none"
                 THEN MainRaise("perform_refinement_qc", outcome.err)
                 ELSE /\ pass_results' = outcome.result
                      /\ page_results' = Append(page_results, outcome.result)
                      /\ m_pc' = IF CurrentPage = Len(scraped_pages)
                                 THEN "combine"
                                 ELSE "perform_initial_conversion"
                      /\ UNCHANGED <<combined_summary, final_summary, output_file, m_err>>
    /\ UNCHANGED <<urls, url_list, scraped_pages, nonMainVars>>

(* a test that sends a single page to the combined pass as well *)
SeveralPages_or_one(results) == Len(results) >= 1

(* line 68: len(page_results) > 1 *)
SeveralPages(results) == Len(results) > 1

(* lines 66-81 *)
MainCombine ==
    /\ m_pc = "combine"
    /\ IF SeveralPages(page_results)
       THEN LET initial_state_combine ==
                    [url |-> NoUrl, text |-> JsonDumps(PageTexts(page_results)),
                     turns |-> <<>>]
            IN  /\ passes_called' = Append(passes_called,
                                           [fn |-> "perform_combined_summary", page |-> 0])
                /\ \/ MainRaise("perform_combined_summary", "ProviderError")
                   \/ \E c \in OneCallOf("StoreCombinedPageSummary") :
                         LET outcome == perform_combined_summary(initial_state_combine,
                                                                 Response(PassOid + 18, c))
                         IN  IF outcome.err # "none"
                             THEN MainRaise("perform_combined_summary", outcome.err)
                             ELSE /\ combined_summary' = outcome.result
                                  /\ final_summary' = <<outcome.result.text>>
                                  /\ m_pc' = "write"
                                  /\ UNCHANGED <<pass_results, page_results, output_file,
                                                 m_err>>
       ELSE /\ IF page_results = <<>>
               THEN MainRaise("main", "IndexError")
               ELSE /\ final_summary' = <<page_results[1].text>>
                    /\ m_pc' = "write"
                    /\ UNCHANGED <<pass_results, page_results, combined_summary,
                                   output_file, m_err>>
            /\ UNCHANGED passes_called
    /\ UNCHANGED <<urls, url_list, scraped_pages, nonMainVars>>

(* lines 84-85 *)
MainWrite ==
    /\ m_pc = "write"
    /\ output_file' = Append(output_file, final_summary[1])
    /\ m_pc' = "returned"
    /\ UNCHANGED <<urls, url_list, scraped_pages, pass_results, page_results,
                   combined_summary, final_summary, passes_called, m_err, nonMainVars>>

MainNext ==
    \/ MainSplit
    \/ MainScrape
    \/ MainInitialConversion
    \/ MainConversionQc
    \/ MainInitialRefinement
    \/ MainRefinementQc
    \/ MainCombine
    \/ MainWrite

InitMain == MainInit /\ GraphIdle /\ BatchIdle /\ ChainIdle /\ ScraperIdle

SpecMain == InitMain /\ [][MainNext]_vars

----------------------------------------------------------------------------
(* utilities/scraping.py: extract_text_from_page *)

(* An element of the page as soup.find_all hands it over: its tag, its text
   (0 is the empty string) and, for a list, the texts of its li items.  A
   table's text stands for its headers and rows. *)
Element(tag, text, items) == [tag |-> tag, text |-> text, items |-> items]

HeadingTags == {"h1", "h2", "h3", "h4", "h5", "h6"}

(* the elements a page is made of here *)
PageElements ==
    {Element("h2", t, <<>>) : t \in 0..2}
    \cup {Element("p", 1, <<>>), Element("pre", 1, <<>>), Element("table", 1, <<>>)}
    \cup {Element("code", t, <<>>) : t \in 0..1}
    \cup {Element("ul", 0, i) : i \in {<<>>, <<1>>}}
    \cup {Element("ol", 0, <<1>>)}

ElementLists == UNION {[1..n -> PageElements] : n \in 0..MaxElements}

(* entry.get(key, ''): the text of a one-key fragment, or the empty string *)
EntryGetText(entry, key) == IF entry.tag = key THEN entry.text ELSE 0

(* entry.get(key, []): the items of a one-key fragment, or the empty list *)
EntryGetItems(entry, key) == IF entry.tag = key THEN entry.items ELSE <<>>

(* a test of line 36 that looks at code fragments only *)
DuplicateText_code_only(text_content, entries) ==
    \E k \in DOMAIN entries : text_content = EntryGetText(entries[k], "code")

(* line 36: any(text_content == entry.get('pre', '') or
                text_content == entry.get('code', '') for entry in ...) *)
DuplicateText(text_content, entries) ==
    \E k \in DOMAIN entries :
       \/ text_content = EntryGetText(entries[k], "pre")
       \/ text_content = EntryGetText(entries[k], "code")

(* line 43: any(list_items == entry.get(tag_name, []) for entry in ...) *)
DuplicateList(tag_name, list_items, entries) ==
    \E k \in DOMAIN entries : list_items = EntryGetItems(entries[k], tag_name)

(* if current_heading: neither None nor the empty string *)
Truthy(heading) == heading # <<>> /\ heading[1] # 0

(* an assignment that keeps the fragments a heading text already has *)
SetHeading_keeps_earlier(structure, heading) ==
    [h \in DOMAIN structure \cup {heading} |->
        IF h \in DOMAIN structure THEN structure[h] ELSE <<>>]

(* line 32: page_structure[current_heading] = [] *)
SetHeading(structure, heading) ==
    [h \in DOMAIN structure \cup {heading} |->
        IF h = heading THEN <<>> ELSE structure[h]]

(* page_structure[current_heading].append(fragment) *)
AppendFragment(structure, heading, fragment) ==
    [structure EXCEPT ![heading] = Append(@, fragment)]

ScraperInit ==
    /\ s_elements \in ElementLists
    /\ s_pos = 0
    /\ page_structure = <<>>
    /\ current_heading = <<>>
    /\ s_pc = "fetch"
    /\ s_err = "none"

(* lines 16-22: the page is fetched and parsed, or requests raises *)
ScrapeFetch ==
    /\ s_pc = "fetch"
    /\ \/ /\ s_pc' = "RAISED"
          /\ s_err' = "ScrapingError"
       \/ /\ s_pc' = "loop"
          /\ UNCHANGED s_err
    /\ UNCHANGED <<s_elements, s_pos, page_structure, current_heading, nonScraperVars>>

NextElement == s_elements[s_pos + 1]

(* lines 29-32 *)
ScrapeHeading ==
    /\ s_pc = "loop"
    /\ s_pos < Len(s_elements)
    /\ NextElement.tag \in HeadingTags
    /\ current_heading' = <<NextElement.text>>
    /\ page_structure' = SetHeading(page_structure, NextElement.text)
    /\ s_pos' = s_pos + 1
    /\ UNCHANGED <<s_elements, s_pc, s_err, nonScraperVars>>

(* lines 33-38 *)
ScrapeText ==
    /\ s_pc = "loop"
    /\ s_pos < Len(s_elements)
    /\ NextElement.tag \in {"p", "pre", "code"}
    /\ LET tag_name == NextElement.tag
           text_content == NextElement.text
       IN  IF Truthy(current_heading)
              /\ ~(/\ tag_name \in {"code", "pre"}
                   /\ DuplicateText(text_content, page_structure[current_heading[1]]))
           THEN page_structure' = AppendFragment(page_structure, current_heading[1],
                                                 Element(tag_name, text_content, <<>>))
           ELSE UNCHANGED page_structure
    /\ s_pos' = s_pos + 1
    /\ UNCHANGED <<s_elements, current_heading, s_pc, s_err, nonScraperVars>>

(* lines 39-45 *)
ScrapeList ==
    /\ s_pc = "loop"
    /\ s_pos < Len(s_elements)
    /\ NextElement.tag \in {"ul", "ol"}
    /\ LET tag_name == NextElement.tag
           list_items == NextElement.items
       IN  IF Truthy(current_heading)
              /\ ~DuplicateList(tag_name, list_items, page_structure[current_heading[1]])
           THEN page_structure' = AppendFragment(page_structure, current_heading[1],
                                                 Element(tag_name, 0, list_items))
           ELSE UNCHANGED page_structure
    /\ s_pos' = s_pos + 1
    /\ UNCHANGED <<s_elements, current_heading, s_pc, s_err, nonScraperVars>>

(* lines 46-56 *)
ScrapeTable ==
    /\ s_pc = "loop"
    /\ s_pos < Len(s_elements)
    /\ NextElement.tag = "table"
    /\ IF Truthy(current_heading)
       THEN page_structure' = AppendFragment(page_structure, current_heading[1],
                                             Element("table", NextElement.text, <<>>))
       ELSE UNCHANGED page_structure
    /\ s_pos' = s_pos + 1
    /\ UNCHANGED <<s_elements, current_heading, s_pc, s_err, nonScraperVars>>

(* line 58 *)
ScrapeReturn ==
    /\ s_pc = "loop"
    /\ s_pos = Len(s_elements)
    /\ s_pc' = "returned"
    /\ UNCHANGED <<s_elements, s_pos, page_structure, current_heading, s_err,
                   nonScraperVars>>

ScraperNext ==
    \/ ScrapeFetch
    \/ ScrapeHeading
    \/ ScrapeText
    \/ ScrapeList
    \/ ScrapeTable
    \/ ScrapeReturn

InitScraper == ScraperInit /\ GraphIdle /\ BatchIdle /\ ChainIdle /\ MainIdle

SpecScraper == InitScraper /\ [][ScraperNext]_vars

----------------------------------------------------------------------------
(* The pipeline as a whole: a graph run, a chain pass or a run of main *)

InitPipeline == Init \/ InitChain \/ InitMain

PipelineNext == GraphNext \/ ChainNext \/ MainNext

SpecPipeline == InitPipeline /\ [][PipelineNext]_vars


----------------------------------------------------------------------------
(* Properties of SUMMARIZE_GRAPH *)

IsPrefix(s, t) == Len(s) <= Len(t) /\ \A i \in 1..Len(s) : s[i] = t[i]

ExpectedOrder ==
    <<"node_validate_starting_state",
      "node_invoke_llm_convert_initial", "node_store_text_convert",
      "node_invoke_llm_convert_2nd_pass", "node_store_text_convert",
      "node_invoke_llm_refine_initial", "node_store_text_refine",
      "node_invoke_llm_refine_2nd_pass", "node_store_text_refine">>

ExpectedTool(node) ==
    IF node \in {"node_invoke_llm_convert_initial", "node_invoke_llm_convert_2nd_pass"}
    THEN "StoreConvertedPage" ELSE "StoreRefinedPageSummary"

(* the model answered, and the last tool call of the answer is a call of the
   node's tool *)
ResponseAsExpected(inv) ==
    /\ inv.response # <<>>
    /\ inv.response[1].tool_calls # <<>>
    /\ LET tool_call == Last(inv.response[1].tool_calls)
       IN  /\ tool_call.name = ExpectedTool(inv.node)
           /\ ArgsValid(tool_call.name, tool_call.args)

AcceptedRun == executed # <<>> /\ err # "InvalidStateError"

(* C1: a run that starts from a state node_validate_starting_state accepts and
   in which every model response ends with a call of the expected tool executes
   validate, convert_initial, store_convert, convert_2nd_pass, store_convert,
   refine_initial, store_refine, refine_2nd_pass, store_refine in this order,
   raises nothing, and is at END after the ninth node with four model
   invocations made. *)
C1_LinearPipeline ==
    (AcceptedRun /\ \A k \in DOMAIN invoked : ResponseAsExpected(invoked[k])) =>
        /\ err = "none"
        /\ Len(executed) <= Len(ExpectedOrder)
        /\ executed = SubSeq(ExpectedOrder, 1, Len(executed))
        /\ pc = IF Len(executed) = Len(ExpectedOrder) THEN "END"
                ELSE ExpectedOrder[Len(executed) + 1]
        /\ pc = "END" =>
              /\ Len(invoked) = 4
              /\ [k \in 1..4 |-> invoked[k].node] =
                    <<"node_invoke_llm_convert_initial", "node_invoke_llm_convert_2nd_pass",
                      "node_invoke_llm_refine_initial", "node_invoke_llm_refine_2nd_pass">>

C1_Witness ==
    /\ pc = "END"
    /\ executed = ExpectedOrder
    /\ \E k \in DOMAIN invoked : Len(invoked[k].response[1].tool_calls) = 2

StoredAfter(qc_node, store_node) ==
    \E i \in 1..(Len(executed) - 1) : executed[i] = qc_node /\ executed[i + 1] = store_node

(* the last turn is the tool message that answers the last tool call of the
   response of the k-th invocation *)
AnswerStored(turns, k) ==
    /\ Len(invoked) >= k
    /\ invoked[k].response # <<>>
    /\ Len(turns) >= 2
    /\ turns[Len(turns) - 1] = invoked[k].response[1]
    /\ Last(turns).type = "tool"
    /\ Last(turns).tool_call_id = Last(invoked[k].response[1].tool_calls).id

(* C2: next_node returns END exactly when convert_complete, refine_1st_complete
   and refine_2nd_complete are all true, and a run is at END only with the three
   flags true, after node_invoke_llm_convert_2nd_pass and
   node_invoke_llm_refine_2nd_pass have each run and been followed by their
   store node, which stored their response. *)
C2_EndOnlyAfterQualityControl ==
    /\ \A cc \in BOOLEAN, r1c \in BOOLEAN, r2c \in BOOLEAN :
          (next_node(cc, r1c, r2c) = "END") <=> (cc /\ r1c /\ r2c)
    /\ pc = "END" =>
          /\ convert_complete /\ refine_1st_complete /\ refine_2nd_complete
          /\ StoredAfter("node_invoke_llm_convert_2nd_pass", "node_store_text_convert")
          /\ StoredAfter("node_invoke_llm_refine_2nd_pass", "node_store_text_refine")
          /\ Len(invoked) = 4
          /\ invoked[2].node = "node_invoke_llm_convert_2nd_pass"
          /\ invoked[4].node = "node_invoke_llm_refine_2nd_pass"
          /\ AnswerStored(convert_turns, 2)
          /\ AnswerStored(refine_turns, 4)

C2_Witness ==
    /\ pc = "END"
    /\ convert_complete /\ refine_1st_complete /\ refine_2nd_complete
    /\ Last(executed) = "node_store_text_refine"

NoDuplicates(turns) ==
    \A i \in DOMAIN turns, j \in DOMAIN turns :
        i # j => turns[i].oid # turns[j].oid /\ turns[i].id # turns[j].id

IsToolAnswer(m, response, name) ==
    /\ m.type = "tool"
    /\ m.name = name
    /\ m.tool_call_id = Last(response.tool_calls).id

(* the turns of the second-pass invocation second, given the first-pass
   invocation first of the same half *)
SixTurns(first, second, template, source, request, review, review_request, tool) ==
    LET t == second.turns
    IN  /\ Len(first.turns) = 2
        /\ first.response # <<>>
        /\ Len(t) = 6
        /\ t[1] = AssignId(first.turns[1])
        /\ t[1].type = "system"
        /\ t[1].content = [text |-> template, args |-> <<Str(source)>>]
        /\ t[2] = AssignId(first.turns[2])
        /\ t[2].type = "human"
        /\ t[2].content = [text |-> request, args |-> <<>>]
        /\ t[3] = first.response[1]
        /\ IsToolAnswer(t[4], t[3], tool)
        /\ t[5].type = "ai"
        /\ t[5].content = [text |-> review,
                            args |-> <<Str(Last(t[3].tool_calls).args.text)>>]
        /\ t[6].type = "human"
        /\ t[6].content = [text |-> review_request, args |-> <<>>]

(* the turn list at END: the six turns sent, the second response and its tool
   message, each once *)
EightTurns(turns, second, tool) ==
    /\ Len(turns) = 8
    /\ second.response # <<>>
    /\ SubSeq(turns, 1, 6) = [i \in 1..6 |-> AssignId(second.turns[i])]
    /\ turns[7] = second.response[1]
    /\ IsToolAnswer(turns[8], turns[7], tool)
    /\ NoDuplicates(turns)

C3_TurnsSent ==
    /\ Len(invoked) >= 2 =>
          /\ invoked[1].node = "node_invoke_llm_convert_initial"
          /\ invoked[2].node = "node_invoke_llm_convert_2nd_pass"
          /\ SixTurns(invoked[1], invoked[2], "page_to_markdown_prompt_template", raw_page,
               "Please convert the source text into markdown and store it.",
               "I stored the converted text.",
               "Please review the converted text and store it.", "StoreConvertedPage")
    /\ Len(invoked) >= 4 =>
          /\ invoked[3].node = "node_invoke_llm_refine_initial"
          /\ invoked[4].node = "node_invoke_llm_refine_2nd_pass"
          /\ SixTurns(invoked[3], invoked[4], "page_summary_prompt_template", converted_page,
               "Please refine the source text and store it.",
               "I stored the refined text.",
               "Please review the refined text and store it.", "StoreRefinedPageSummary")
    /\ pc = "END" =>
          /\ EightTurns(convert_turns, invoked[2], "StoreConvertedPage")
          /\ EightTurns(refine_turns, invoked[4], "StoreRefinedPageSummary")

(* C3: the turns node_invoke_llm_convert_2nd_pass sends are the system prompt,
   the human request, the first response, its tool message, the AI review
   message and the human review request, in this order; at END convert_turns
   holds these six, then the second response and its tool message, eight
   messages each once; every value of convert_turns is a prefix of every later
   one; and the same for refine_turns and the refine nodes. *)
C3_HistoryThreaded ==
    /\ [](C3_TurnsSent /\ NoDuplicates(convert_turns) /\ NoDuplicates(refine_turns))
    /\ [][/\ IsPrefix(convert_turns, convert_turns')
          /\ IsPrefix(refine_turns, refine_turns')]_vars

C3_Witness ==
    /\ pc = "END"
    /\ Len(convert_turns) = 8
    /\ Len(refine_turns) = 8
    /\ Len(convert_turns[3].tool_calls) = 2
    /\ Len(refine_turns[7].tool_calls) = 1

(* the starting states the claim says are rejected *)
RejectedStart ==
    \/ "raw_page" \notin keys
    \/ raw_page = 0
    \/ "convert_turns" \in keys /\ Len(convert_turns) > 0
    \/ "refine_turns" \in keys /\ Len(refine_turns) > 0
    \/ "convert_complete" \in keys /\ convert_complete
    \/ "refine_1st_complete" \in keys /\ refine_1st_complete
    \/ "refine_2nd_complete" \in keys /\ refine_2nd_complete

RaisedIsFinal == pc = "RAISED" => UNCHANGED vars

(* C4: node_validate_starting_state raises InvalidStateError exactly when
   raw_page is missing or empty, a turn list is non-empty or a completion flag is
   true; the run then stops with no model invocation and no other node run;
   otherwise the node leaves both turn lists empty and the three flags false. *)
C4_ValidateStartingState ==
    /\ [](err = "InvalidStateError" =>
             /\ pc = "RAISED"
             /\ executed = <<"node_validate_starting_state">>
             /\ invoked = <<>>)
    /\ [][/\ RaisedIsFinal
          /\ pc = "node_validate_starting_state" =>
                IF RejectedStart
                THEN /\ err' = "InvalidStateError"
                     /\ pc' = "RAISED"
                     /\ invoked' = <<>>
                ELSE /\ err' = "none"
                     /\ pc' = "node_invoke_llm_convert_initial"
                     /\ convert_turns' = <<>>
                     /\ refine_turns' = <<>>
                     /\ ~convert_complete' /\ ~refine_1st_complete' /\ ~refine_2nd_complete'
                     /\ {"convert_turns", "refine_turns", "convert_complete",
                         "refine_1st_complete", "refine_2nd_complete"} \subseteq keys']_vars

C4_Witness ==
    /\ err = "InvalidStateError"
    /\ raw_page \in Pages
    /\ convert_turns = <<>>
    /\ refine_turns = <<>>
    /\ ~convert_complete /\ ~refine_1st_complete
    /\ refine_2nd_complete

(* the text a store node has just recorded is the text argument of the last
   tool call of the response it answers *)
RecordedText(turns, page) ==
    (turns # <<>> /\ Last(turns).type = "tool") =>
        /\ Len(turns) >= 2
        /\ turns[Len(turns) - 1].tool_calls # <<>>
        /\ page = Last(turns[Len(turns) - 1].tool_calls).args.text

(* C5: store_converted_page, store_refined_page_summary and
   store_combined_page_summary return the text they are given (being functions
   of their argument they touch no state), and the text a store node records is
   the text argument of the model's last tool call, unchanged. *)
C5_StoreToolsReturnTheirText ==
    /\ \A t \in Texts \cup {0} :
          /\ store_converted_page(t) = t
          /\ store_refined_page_summary(t) = t
          /\ store_combined_page_summary(t) = t
    /\ RecordedText(convert_turns, converted_page)
    /\ RecordedText(refine_turns, refined_page)

C5_Witness ==
    /\ pc = "END"
    /\ converted_page = NumTexts
    /\ refined_page = NumTexts
    /\ Len(Last(invoked).response[1].tool_calls) = 2
    /\ Last(invoked).response[1].tool_calls[1].args.text = 1

StoreRejects(node, turns, page, name) ==
    (pc = node /\ Last(turns).tool_calls # <<>>) =>
        IF Last(Last(turns).tool_calls).name # name
        THEN /\ err' = "ValueError"
             /\ pc' = "RAISED"
             /\ page' = page
             /\ turns' = turns
             /\ invoked' = invoked
        ELSE err' # "ValueError"

(* C6: when the last tool call of the last turn is not named
   StoreConvertedPage, node_store_text_convert raises ValueError, leaves
   converted_page and convert_turns as they are (no tool message is appended)
   and the run makes no further model invocation; a call of that name does not
   raise ValueError; and the same for node_store_text_refine with
   StoreRefinedPageSummary, refined_page and refine_turns. *)
C6_StoreNodesRejectOtherTools ==
    /\ [](err = "ValueError" => pc = "RAISED")
    /\ [][/\ pc = "RAISED" => invoked' = invoked /\ pc' = pc
          /\ StoreRejects("node_store_text_convert", convert_turns, converted_page,
                          "StoreConvertedPage")
          /\ StoreRejects("node_store_text_refine", refine_turns, refined_page,
                          "StoreRefinedPageSummary")]_vars

C6_Witness ==
    /\ err = "ValueError"
    /\ Last(executed) = "node_store_text_convert"
    /\ convert_complete
    /\ Len(Last(convert_turns).tool_calls) = 2
    /\ Last(convert_turns).tool_calls[1].name = "StoreConvertedPage"


----------------------------------------------------------------------------
(* Properties of perform_initial_conversion_batched *)

GroupOf(j) == (j - 1) \div 3

CeilThirds(n) == (n + 2) \div 3

C7_InFlightBounded ==
    /\ Cardinality(InFlight) <= 3
    /\ \A j \in InFlight, p \in 1..Len(batched_context) :
          /\ GroupOf(p) < GroupOf(j) => p <= Len(response_batched)
          /\ p \in InFlight => GroupOf(p) = GroupOf(j)
    /\ \A j \in DOMAIN sent : sent[j] <= 1
    /\ b_pc = "returned" =>
          /\ \A j \in DOMAIN sent : sent[j] = 1
          /\ DOMAIN sent = DOMAIN scraped_page.content
          /\ groups_run = CeilThirds(Len(scraped_page.content))

(* C7: perform_initial_conversion_batched has at most three model calls in
   flight, begins no call of a group before every call of the groups before it
   has returned, has sent every section once when it returns, and has then run
   ceil(n/3) groups for n sections. *)
C7_GroupsOfThree ==
    /\ []C7_InFlightBounded
    /\ [][\A j \in DOMAIN sent :
             sent'[j] # sent[j] =>
                 /\ sent[j] = 0 /\ sent'[j] = 1
                 /\ \A p \in DOMAIN sent :
                       GroupOf(p) < GroupOf(j) => p <= Len(response_batched)
                 /\ \A p \in InFlight : GroupOf(p) = GroupOf(j)]_vars

C7_Witness ==
    /\ b_pc = "gather"
    /\ Len(batched_context) = 4
    /\ groups_run = 2
    /\ Len(response_batched) = 3
    /\ InFlight = {4}

C8_PassOfSection(j) ==
    LET p == conversion_passes[j]
        n == Len(scraped_page.content)
    IN  /\ p.url = scraped_page.url
        /\ Len(p.turns) = 4
        /\ p.turns[1].type = "system"
        /\ p.turns[1].content = [text |-> "page_to_markdown_prompt_template",
                                 args |-> <<JsonDumps(scraped_page.content[j])>>]
        /\ p.turns[2].type = "human"
        /\ p.turns[2].content = [text |-> "Please convert the source text into markdown and store it.",
                                 args |-> <<>>]
        /\ p.turns[3].type = "ai"
        /\ p.turns[3].oid = ResponseOid(j)
        /\ IsToolAnswer(p.turns[4], p.turns[3], "StoreConvertedPage")
        /\ p.text = Last(p.turns[3].tool_calls).args.text
        /\ {p.turns[i].oid : i \in 1..4} =
              {PromptOid(j), RequestOid(j), ResponseOid(j), ToolMessageOid(j, n)}

(* C8: perform_initial_conversion_batched returns one pass per section, in the
   order of the sections; the pass at position j holds the response of the call
   made for section j, in whatever order the calls of a group ended, and its
   turns are that section's system prompt, the human request, that response and
   its tool message, and no message of another section. *)
C8_OnePassPerSectionInOrder ==
    /\ \A j \in DOMAIN response_batched : response_batched[j].oid = ResponseOid(j)
    /\ b_pc = "returned" =>
          /\ Len(conversion_passes) = Len(scraped_page.content)
          /\ \A j \in DOMAIN conversion_passes : C8_PassOfSection(j)

C8_Witness ==
    /\ b_pc = "returned"
    /\ Len(conversion_passes) = 2
    /\ Len(completed) = 2
    /\ completed[1].pos = 2
    /\ conversion_passes[1].text # conversion_passes[2].text


----------------------------------------------------------------------------
(* Properties of the chain passes *)

C9_PromptContent ==
    IF c_fn = "perform_initial_refinement"
    THEN [text |-> "page_refine_prompt_template", args |-> <<JsonDumps(c_args.text)>>]
    ELSE [text |-> "page_qc_prompt_template", args |-> <<Str(c_args.text), Str(c_args.refined)>>]

C9_RequestContent ==
    IF c_fn = "perform_initial_refinement"
    THEN [text |-> "Please refine the source text and store it.", args |-> <<>>]
    ELSE [text |-> "Please perform a quality control pass on the refined doc and store it.",
          args |-> <<>>]

(* C9: perform_initial_refinement and perform_quality_control invoke the model
   once; the pass returned has the url passed in, the text argument of the last
   tool call of that one response as its text, and turns that end with the
   system prompt, the human request, the response and the tool message carrying
   the id of that tool call, after the turns the pass was given. *)
C9_PassIsOneRound ==
    /\ c_pc \in {"returned", "RAISED"} => Len(c_invocations) = 1
    /\ c_pc = "returned" =>
          LET inv == c_invocations[1]
              t == c_result.turns
              n == Len(t)
          IN  /\ inv.response # <<>>
              /\ inv.response[1].tool_calls # <<>>
              /\ c_result.url = c_args.url
              /\ c_result.text = Last(inv.response[1].tool_calls).args.text
              /\ n = Len(c_args.turns) + 4
              /\ SubSeq(t, 1, n - 4) = c_args.turns
              /\ t[n - 3].type = "system"
              /\ t[n - 3].content = C9_PromptContent
              /\ t[n - 2].type = "human"
              /\ t[n - 2].content = C9_RequestContent
              /\ t[n - 1] = inv.response[1]
              /\ IsToolAnswer(t[n], inv.response[1], "StoreRefinedPageSummary")
              /\ inv.turns = SubSeq(t, 1, n - 2)

C9_Witness ==
    /\ c_pc = "returned"
    /\ c_fn = "perform_initial_refinement"
    /\ c_args.turns # <<>>
    /\ Len(c_invocations[1].response[1].tool_calls) = 2
    /\ c_result.text = NumTexts
    /\ c_result.url = <<"b">>

----------------------------------------------------------------------------
(* Properties of main *)

CombinedCalls ==
    {i \in DOMAIN passes_called : passes_called[i].fn = "perform_combined_summary"}

(* the four passes of every page of the list have been called, page by page *)
EveryPagePassed ==
    /\ Len(passes_called) >= 4 * Len(url_list)
    /\ \A k \in 1..Len(url_list) : \A p \in 1..4 :
          passes_called[4 * (k - 1) + p] = [fn |-> PassOrder[p], page |-> k]

C10_AtAnyTime ==
    /\ Cardinality(CombinedCalls) <= 1
    /\ \A i \in CombinedCalls :
          /\ i = 4 * Len(url_list) + 1
          /\ EveryPagePassed
          /\ Len(page_results) = Len(url_list)
          /\ Len(page_results) > 1
    /\ m_pc \in {"write", "returned"} =>
          /\ Len(page_results) = Len(url_list)
          /\ EveryPagePassed
          /\ (CombinedCalls # {}) <=> (Len(page_results) > 1)
    /\ output_file # <<>> <=> m_pc = "returned"
    /\ m_pc = "returned" =>
          /\ Len(output_file) = 1
          /\ Len(page_results) = 1 => output_file = <<page_results[1].text>>
          /\ Len(page_results) > 1 => output_file = <<combined_summary.text>>

C10_AtEveryStep ==
    /\ m_pc = "perform_refinement_qc" /\ m_pc' # "RAISED" =>
          /\ page_results' = Append(page_results, pass_results')
          /\ Last(passes_called') =
                 [fn |-> "perform_refinement_qc", page |-> Len(page_results')]
    /\ (/\ passes_called' # passes_called
        /\ Last(passes_called').fn = "perform_combined_summary"
        /\ m_pc' # "RAISED") =>
          /\ combined_summary' # NoPass
          /\ combined_summary'.turns[1].content.args = <<JsonDumps(PageTexts(page_results))>>
    /\ output_file' # output_file =>
          /\ m_pc' = "returned"
          /\ passes_called' = passes_called
    /\ m_pc # "returned"

(* C10: main calls perform_combined_summary exactly when more than one page was
   summarised, and only after the four passes of every page have returned;
   with one page the text written to the output file is the text of that
   page's refinement-QC pass, with several pages it is the text of the combined
   pass; the output file is written once, and nothing follows the write. *)
C10_CombineOptional == [](C10_AtAnyTime) /\ [][C10_AtEveryStep]_vars

C10_Witness ==
    /\ m_pc = "returned"
    /\ Len(page_results) = 2
    /\ Len(passes_called) = 9
    /\ output_file = <<combined_summary.text>>
    /\ combined_summary.text # page_results[1].text
    /\ combined_summary.text # page_results[2].text

(* the i-th pass of the loop over the pages: page by page, four passes each *)
C11_PassAt(i) == [fn |-> PassOrder[((i - 1) % 4) + 1], page |-> ((i - 1) \div 4) + 1]

PagePasses == {i \in DOMAIN passes_called : passes_called[i].fn # "perform_combined_summary"}

(* C11: main takes the pages one at a time in the order of the --urls list and
   runs initial conversion, conversion QC, initial refinement and refinement QC
   on each, in that order; the four passes of a page are over before a pass of
   the next page is called, and page_results holds one final pass per url, in
   the order of the urls. *)
C11_PagesInOrder ==
    /\ \A i \in PagePasses :
          /\ passes_called[i] = C11_PassAt(i)
          /\ passes_called[i].page <= Len(url_list)
          /\ Len(scraped_pages) = Len(url_list)
          /\ scraped_pages[passes_called[i].page].url = url_list[passes_called[i].page]
    /\ Len(page_results) <= Len(url_list)
    /\ 4 * Len(page_results) <= Cardinality(PagePasses)
    /\ Cardinality(PagePasses) <= 4 * Len(page_results) + 4
    /\ \A k \in DOMAIN page_results :
          /\ page_results[k].url = url_list[k]
          /\ Last(page_results[k].turns).name = "StoreRefinedPageSummary"
    /\ m_pc \in {"combine", "write", "returned"} =>
          /\ Len(page_results) = Len(url_list)
          /\ Cardinality(PagePasses) = 4 * Len(url_list)

C11_Witness ==
    /\ m_pc = "returned"
    /\ Len(url_list) = 2
    /\ url_list[1] # url_list[2]
    /\ Len(page_results) = 2
    /\ page_results[1].text # page_results[2].text

----------------------------------------------------------------------------
(* Properties of the pipeline as a whole *)

GraphStateVars == <<keys, pageVars, turnVars, flagVars>>

C12_Aborted ==
    /\ (err # "none") <=> (pc = "RAISED")
    /\ \A i \in DOMAIN invoked :
          invoked[i].response = <<>> =>
             /\ i = Len(invoked)
             /\ pc = "RAISED"
             /\ err = "ProviderError"
             /\ Last(executed) = invoked[i].node
    /\ (m_err # "none") <=> (m_pc = "RAISED")
    /\ m_pc = "RAISED" =>
          /\ output_file = <<>>
          /\ final_summary = <<>> \/ Last(passes_called).fn # "perform_combined_summary"
          /\ m_err = "ScrapingError" => passes_called = <<>>

C12_AbortStep ==
    /\ pc # "RAISED"
    /\ m_pc # "RAISED"
    /\ pc' = "RAISED" =>
          /\ executed' = Append(executed, pc)
          /\ UNCHANGED GraphStateVars
    /\ m_pc' = "RAISED" =>
          /\ UNCHANGED <<pass_results, page_results, combined_summary, final_summary,
                         output_file>>
          /\ m_pc \in {"scrape", "combine"} \/ Last(passes_called').fn = m_pc

(* C12: when a model invocation or a node raises, the graph run stops there:
   the state is as it was before the node, and no step follows.  When a pass or
   the scraping raises in main, the command stops there: no pass follows, and
   the output file is not written. *)
C12_NoFailureRecovery == [](C12_Aborted) /\ [][C12_AbortStep]_vars

C12_Witness ==
    /\ m_pc = "RAISED"
    /\ m_err = "ProviderError"
    /\ Len(page_results) = 1
    /\ Len(passes_called) = 7
    /\ output_file = <<>>

----------------------------------------------------------------------------
(* Properties of extract_text_from_page *)

IsHeading(e) == e.tag \in HeadingTags

HeadingPositions == {i \in DOMAIN s_elements : IsHeading(s_elements[i])}

HeadingTexts == {s_elements[i].text : i \in HeadingPositions}

(* the position of the first heading after position i, or one past the end *)
NextHeading(i) ==
    IF \E j \in HeadingPositions : j > i
    THEN CHOOSE j \in HeadingPositions : j > i /\ \A k \in HeadingPositions : k > i => j <= k
    ELSE Len(s_elements) + 1

(* the elements between the heading at position i and the next heading *)
SectionOf(i) == SubSeq(s_elements, i + 1, NextHeading(i) - 1)

(* a occurs in b, in the order of a *)
IsSubsequence(a, b) ==
    \E f \in [DOMAIN a -> DOMAIN b] :
       /\ \A k \in DOMAIN a : b[f[k]] = a[k]
       /\ \A k, l \in DOMAIN a : k < l => f[k] < f[l]

(* C13 as stated: for every heading of the document, the fragments between it
   and the next heading are found, in document order, in the sequence the
   result maps from the heading's text. *)
C13_EveryOccurrenceKept ==
    s_pc = "returned" =>
       \A i \in HeadingPositions :
          /\ s_elements[i].text \in DOMAIN page_structure
          /\ IsSubsequence(SectionOf(i), page_structure[s_elements[i].text])

LastHeading(h) ==
    CHOOSE i \in HeadingPositions :
       /\ s_elements[i].text = h
       /\ \A j \in HeadingPositions : s_elements[j].text = h => j <= i

(* the element e is left out of a sequence that holds the fragments kept *)
C13_LeftOut(e, kept) ==
    \/ /\ e.tag \in {"pre", "code"}
       /\ \/ \E k \in DOMAIN kept : kept[k].tag \in {"pre", "code"} /\ kept[k].text = e.text
          \/ e.text = 0 /\ kept # <<>>
    \/ /\ e.tag \in {"ul", "ol"}
       /\ \/ \E k \in DOMAIN kept : kept[k].tag = e.tag /\ kept[k].items = e.items
          \/ e.items = <<>> /\ \E k \in DOMAIN kept : kept[k].tag # e.tag

RECURSIVE C13_Kept(_, _)
C13_Kept(kept, rest) ==
    IF rest = <<>>
    THEN kept
    ELSE C13_Kept(IF C13_LeftOut(Head(rest), kept) THEN kept ELSE Append(kept, Head(rest)),
                  Tail(rest))

(* C13, amended: the result maps every heading text of the document.  The
   sequence mapped from a heading text that is not empty holds, in document
   order, the fragments between the last heading of that text and the next
   heading, less the pre, code and list elements left out as duplicates, and
   nothing else; the sequence mapped from the empty heading text is empty. *)
C13_LastOccurrenceKept ==
    s_pc = "returned" =>
       /\ DOMAIN page_structure = HeadingTexts
       /\ \A h \in HeadingTexts :
             page_structure[h] = IF h = 0 THEN <<>>
                                 ELSE C13_Kept(<<>>, SectionOf(LastHeading(h)))

C13_Witness ==
    /\ s_pc = "returned"
    /\ Len(s_elements) = 4
    /\ s_elements[1] = s_elements[3]
    /\ IsHeading(s_elements[1])
    /\ s_elements[2].tag = "p"
    /\ s_elements[4].tag = "table"
    /\ page_structure[s_elements[1].text] = <<s_elements[4]>>

----------------------------------------------------------------------------
(* Properties of the turns handed to the model *)

(* every tool call of every response in turns is answered, call by call, by the
   tool messages that follow the response *)
ToolCallsAnswered(turns) ==
    \A k \in DOMAIN turns :
       turns[k].type = "ai" =>
          \A j \in DOMAIN turns[k].tool_calls :
             /\ k + j <= Len(turns)
             /\ turns[k + j].type = "tool"
             /\ turns[k + j].tool_call_id = turns[k].tool_calls[j].id

(* C14: in the turns handed to the model at any invocation, by a graph node or
   by a chain pass, every tool call of an earlier response is answered by a
   tool message of the same tool_call_id that follows the response directly,
   also when the response carries more than one tool call. *)
C14_ReActFormat ==
    /\ \A i \in DOMAIN invoked : ToolCallsAnswered(invoked[i].turns)
    /\ \A i \in DOMAIN c_invocations : ToolCallsAnswered(c_invocations[i].turns)

----------------------------------------------------------------------------
(* Properties of the refinement stage *)

(* the text the model's response asks to store *)
StoredBy(response) == Last(response.tool_calls).args.text

(* the invocation of node_invoke_llm_convert_2nd_pass before invocation i *)
ConversionQcBefore(i) ==
    {j \in 1..(i - 1) : invoked[j].node = "node_invoke_llm_convert_2nd_pass"}

C15_InGraph ==
    \A i \in DOMAIN invoked :
       invoked[i].node = "node_invoke_llm_refine_initial" =>
          LET handed == invoked[i].turns
              prompt == handed[Len(handed) - 1]
          IN  /\ prompt.type = "system"
              /\ prompt.content.text = "page_summary_prompt_template"
              /\ ConversionQcBefore(i) # {}
              /\ \A j \in ConversionQcBefore(i) :
                    /\ invoked[j].response # <<>>
                    /\ prompt.content.args = <<Str(StoredBy(invoked[j].response[1]))>>

C15_InMain ==
    (m_pc = "perform_initial_refinement" /\ m_pc' = "perform_refinement_qc") =>
       /\ Last(passes_called).fn = "perform_conversion_qc"
       /\ pass_results.text = StoredBy(pass_results.turns[Len(pass_results.turns) - 1])
       /\ Len(pass_results'.turns) = 4
       /\ pass_results'.turns[1].content.text = "page_refine_prompt_template"
       /\ pass_results'.turns[1].content.args = <<JsonDumps(pass_results.text)>>

(* C15: in the graph the text in the prompt of node_invoke_llm_refine_initial is
   the text stored from the response of node_invoke_llm_convert_2nd_pass; in
   main the state given to perform_initial_refinement holds the text returned
   by perform_conversion_qc and an empty turn list, so that the pass returns
   with its own four turns, the prompt on that text first. *)
C15_RefinesQualityControlledText == [](C15_InGraph) /\ [][C15_InMain]_vars

C15_Witness ==
    /\ m_pc = "perform_refinement_qc"
    /\ Len(page_results) = 1
    /\ Len(pass_results.turns) = 4
    /\ pass_results.turns[1].content.text = "page_refine_prompt_template"
    /\ pass_results.turns[1].content.args = <<JsonDumps(2)>>

----------------------------------------------------------------------------
(* Properties of the final state of a graph run *)

(* C16: at END converted_page is the text of the last tool call of the response
   of node_invoke_llm_convert_2nd_pass and refined_page is the text of the last
   tool call of the response of node_invoke_llm_refine_2nd_pass, and the state
   run_workflow returns, the state streamed last, holds these values and those
   of the other channels. *)
C16_FinalState ==
    pc = "END" =>
       /\ Len(invoked) = 4
       /\ invoked[2].node = "node_invoke_llm_convert_2nd_pass"
       /\ invoked[4].node = "node_invoke_llm_refine_2nd_pass"
       /\ converted_page = StoredBy(invoked[2].response[1])
       /\ refined_page = StoredBy(invoked[4].response[1])
       /\ final_state.converted_page = StoredBy(invoked[2].response[1])
       /\ final_state.refined_page = StoredBy(invoked[4].response[1])
       /\ final_state.keys = StateKeys
       /\ final_state.raw_page = raw_page
       /\ final_state.convert_turns = convert_turns
       /\ final_state.refine_turns = refine_turns
       /\ final_state.convert_complete
       /\ final_state.refine_1st_complete
       /\ final_state.refine_2nd_complete

C16_Witness ==
    /\ pc = "END"
    /\ StoredBy(invoked[1].response[1]) # StoredBy(invoked[2].response[1])
    /\ StoredBy(invoked[3].response[1]) # StoredBy(invoked[4].response[1])
    /\ final_state.converted_page = StoredBy(invoked[2].response[1])
    /\ final_state.refined_page = StoredBy(invoked[4].response[1])

----------------------------------------------------------------------------
(* Properties of the length of a graph run *)

Nodes == {"node_validate_starting_state", "node_invoke_llm_convert_initial",
          "node_invoke_llm_convert_2nd_pass", "node_invoke_llm_refine_initial",
          "node_invoke_llm_refine_2nd_pass", "node_store_text_convert",
          "node_store_text_refine"}

TimesExecuted(node) == Cardinality({i \in DOMAIN executed : executed[i] = node})

RunOver == pc \in {"END", "RAISED"}

(* C17: a graph run ends, at END or with an error raised, after nine node
   executions at most, whatever the start state and the responses: while it is
   not over a node can run, every node that runs is counted, there are never
   more than nine, and none runs more than twice. *)
C17_RunTerminates ==
    /\ Len(executed) <= 9
    /\ \A node \in Nodes : TimesExecuted(node) <= 2
    /\ \A i \in DOMAIN executed : executed[i] \in Nodes
    /\ Len(executed) = 9 => RunOver
    /\ ~RunOver => pc \in Nodes /\ ENABLED GraphNext
    /\ RunOver => ~ENABLED GraphNext
    /\ pc = "END" => Len(executed) = 9

C17_Witness ==
    /\ pc = "END"
    /\ Len(executed) = 9
    /\ TimesExecuted("node_store_text_convert") = 2
    /\ TimesExecuted("node_store_text_refine") = 2
    /\ Len(Last(invoked).response[1].tool_calls) = 2

----------------------------------------------------------------------------
(* Properties of the checkpointer *)

AtEnd(state) ==
    /\ state.convert_complete
    /\ state.refine_1st_complete
    /\ state.refine_2nd_complete
    /\ state.convert_turns # <<>>
    /\ state.refine_turns # <<>>

(* a run on a thread that has a checkpoint is rejected before any model call *)
C18_Rejected ==
    resumed =>
       /\ AtEnd(StateValues)
       /\ invoked = <<>>
       /\ pc \in {"node_validate_starting_state", "RAISED"}
       /\ pc = "node_validate_starting_state" => InvalidStartingState
       /\ pc = "RAISED" =>
             /\ err = "InvalidStateError"
             /\ executed = <<"node_validate_starting_state">>

(* what the call of run_workflow that is this step begins with *)
C18_RunBegins ==
    runs' # runs =>
       LET saved == checkpoints[thread']
       IN  IF saved = <<>>
           THEN /\ ~resumed'
                /\ final_state' \in RunInputs
                /\ convert_turns' = <<>> /\ refine_turns' = <<>>
                /\ ~convert_complete' /\ ~refine_1st_complete' /\ ~refine_2nd_complete'
           ELSE /\ resumed'
                /\ AtEnd(saved[1])
                /\ convert_turns' = saved[1].convert_turns
                /\ refine_turns' = saved[1].refine_turns
                /\ convert_complete' /\ refine_1st_complete' /\ refine_2nd_complete'
                /\ converted_page' = saved[1].converted_page
                /\ refined_page' = saved[1].refined_page
                /\ raw_page' \in Pages \cup {saved[1].raw_page}

(* a step writes the checkpoint of the run's thread and of no other *)
C18_PerThread ==
    /\ checkpoints'[thread'] = <<final_state'>>
    /\ \A u \in Threads : u # thread' => checkpoints'[u] = checkpoints[u]

(* C18: the state is saved per thread id.  A run started on a thread on which a
   run has reached END begins with the turns, flags and texts saved there and
   the page of its input, and node_validate_starting_state rejects it with
   InvalidStateError before any call of the model; a run started on a thread
   that has no checkpoint begins with its input alone. *)
C18_CheckpointedPerThread ==
    [](C18_Rejected) /\ [][C18_RunBegins /\ C18_PerThread]_vars

C18_Witness ==
    /\ runs = 3
    /\ resumed
    /\ pc = "RAISED"
    /\ err = "InvalidStateError"
    /\ \A t \in {1, 2} : checkpoints[t] # <<>> /\ AtEnd(checkpoints[t][1])

----------------------------------------------------------------------------
(* Properties of the fragments under one heading *)

SameBlock(a, b) ==
    \/ a.tag \in {"pre", "code"} /\ b.tag \in {"pre", "code"} /\ a.text = b.text
    \/ a.tag \in {"ul", "ol"} /\ a.tag = b.tag /\ a.items = b.items

(* C19: under any one heading of page_structure no two pre or code fragments
   carry the same text and no two list fragments of the same tag carry the
   same items, while the page is read and in the result returned. *)
C19_NoDuplicateBlocks ==
    \A h \in DOMAIN page_structure :
       \A i, j \in DOMAIN page_structure[h] :
          i # j => ~SameBlock(page_structure[h][i], page_structure[h][j])

C19_Witness ==
    /\ s_pc = "returned"
    /\ s_elements = <<Element("h2", 1, <<>>), Element("pre", 1, <<>>),
                      Element("code", 1, <<>>), Element("ul", 0, <<1>>)>>
    /\ page_structure[1] = <<Element("pre", 1, <<>>), Element("ul", 0, <<1>>)>>

----------------------------------------------------------------------------
(* Properties of the completion flags *)

FlagsOrdered ==
    /\ refine_2nd_complete => refine_1st_complete
    /\ refine_1st_complete => convert_complete

FlagsMonotone ==
    /\ convert_complete => convert_complete'
    /\ refine_1st_complete => refine_1st_complete'
    /\ refine_2nd_complete => refine_2nd_complete'

(* a starting state node_validate_starting_state rejects, before and after the
   node has raised *)
StartRejected ==
    \/ pc = "node_validate_starting_state" /\ InvalidStartingState
    \/ err = "InvalidStateError"

(* C20 as stated: in every reachable state refine_2nd_complete implies
   refine_1st_complete and refine_1st_complete implies convert_complete, and a
   flag that is true stays true. *)
C20_FlagsOrdered ==
    [](FlagsOrdered) /\ [][FlagsMonotone]_vars

(* C20, amended: in every state of a run other than a starting state that
   node_validate_starting_state rejects, refine_2nd_complete implies
   refine_1st_complete and refine_1st_complete implies convert_complete; in
   every run a flag that is true stays true. *)
C20_FlagsOrderedOnceAccepted ==
    [](~StartRejected => FlagsOrdered) /\ [][FlagsMonotone]_vars

C20_Witness ==
    /\ pc = "node_store_text_refine"
    /\ err = "none"
    /\ convert_complete
    /\ refine_1st_complete
    /\ ~refine_2nd_complete
    /\ Len(executed) = 6

----------------------------------------------------------------------------
(* Properties of the two halves of the graph state *)

ConvertNodes ==
    {"node_invoke_llm_convert_initial", "node_invoke_llm_convert_2nd_pass",
     "node_store_text_convert"}

RefineNodes ==
    {"node_invoke_llm_refine_initial", "node_invoke_llm_refine_2nd_pass",
     "node_store_text_refine"}

refineHalf == <<refine_turns, refined_page, refine_1st_complete, refine_2nd_complete>>

convertHalf == <<raw_page, converted_page, convert_turns, convert_complete>>

(* turns is before with one tool message after it *)
OneToolMessageAppended(before, turns) ==
    /\ Len(turns) = Len(before) + 1
    /\ IsPrefix(before, turns)
    /\ Last(turns).type = "tool"

(* the step is the node at pc returning, not raising *)
NodeReturns == executed' # executed /\ pc' # "RAISED"

C21_HalvesKept ==
    /\ pc \in ConvertNodes => UNCHANGED refineHalf
    /\ pc \in RefineNodes => UNCHANGED convertHalf

C21_StoreWrites ==
    /\ (pc = "node_store_text_convert" /\ NodeReturns) =>
          /\ OneToolMessageAppended(convert_turns, convert_turns')
          /\ UNCHANGED <<raw_page, convert_complete>>
    /\ (pc = "node_store_text_refine" /\ NodeReturns) =>
          /\ OneToolMessageAppended(refine_turns, refine_turns')
          /\ UNCHANGED <<refine_1st_complete, refine_2nd_complete>>

C21_ConversionSettled ==
    (convert_complete /\ pc # "node_store_text_convert") =>
        UNCHANGED <<converted_page, convert_turns>>

(* C21: the convert and store-convert nodes leave refine_turns, refined_page
   and the two refinement flags unchanged, the refine and store-refine nodes
   leave raw_page, converted_page, convert_turns and convert_complete
   unchanged, a store node that returns changes its page text alone and
   appends one tool message to its own turn list, and with convert_complete
   true and the second conversion stored converted_page and convert_turns
   change no more. *)
C21_HalvesIsolated ==
    [][C21_HalvesKept /\ C21_StoreWrites /\ C21_ConversionSettled]_vars

C21_Witness ==
    /\ pc = "END"
    /\ err = "none"
    /\ Len(convert_turns) = 8
    /\ Len(refine_turns) = 8
    /\ converted_page # refined_page

----------------------------------------------------------------------------
(* Properties of the outcomes of a store step *)

StoreNodes == {"node_store_text_convert", "node_store_text_refine"}

StoreTurns == IF pc = "node_store_text_convert" THEN convert_turns ELSE refine_turns

(* what the claim says of the step a store node takes *)
C22_StoreStep ==
    pc \in StoreNodes =>
       /\ NodeReturns \/ (pc' = "RAISED" /\ err' = "ValueError")
       /\ Last(StoreTurns).tool_calls = <<>> => err' = "ValueError"

(* C22: a store step either records the text and appends the tool message or
   raises ValueError, and a response that carries no tool call is among those
   it raises ValueError for. *)
C22_StoreOutcomes == [][C22_StoreStep]_vars

=============================================================================
